---- MODULE Spec2Model ----
(***************************************************************************)
(* AskMyDocs: the document ingestion pipeline of src/document_processor.py *)
(* (chunk_text, process_text_file / process_image / process_pdf,           *)
(* process_document, create_user_collection, upload_chunks_to_qdrant) and  *)
(* the per-user Qdrant collections it writes; and the upload loop          *)
(* process_uploaded_file of src/simple_app.py, which drives it; the login  *)
(* and chat handlers of src/simple_app.py; the authentication functions of *)
(* src/aws_cognito.py; and the DatabaseManager of src/database.py.         *)
(*                                                                         *)
(* Texts are sequences of one-character strings.  The specifications:      *)
(*   SpecChunk    chunk_text applied to bounded texts, windows, overlaps   *)
(*   SpecGateway  one create_user_collection / upload_chunks_to_qdrant     *)
(*                call applied to a store state drawn from PreStores       *)
(*   SpecIngest   one process_document call, over every file extension,    *)
(*                applied to a store state drawn from PreStores, and the   *)
(*                same call made once more; or one process_text_file call  *)
(*   SpecUpload   one process_uploaded_file call with up to MaxFiles files *)
(*   Spec         sequences of process_document calls on one store         *)
(*   SpecChunkLoop  the loop of chunk_text, one iteration per step         *)
(*   SpecSessions   two clients logging in, uploading and chatting         *)
(*   SpecRace     two upload_chunks_to_qdrant calls running concurrently   *)
(*   SpecAuth     sign_up, confirm_sign_up, sign_in, verify_token under    *)
(*                every configuration of the Cognito client                *)
(*   SpecDb       the construction of DatabaseManager                      *)
(***************************************************************************)
EXTENDS Integers, Sequences, FiniteSets, TLC

VARIABLES
    ct,           \* the chunk_text call under study: arguments and result
    collections,  \* the Qdrant store: collection name -> config and points
    last,         \* the call that completed last, with what it did
    persisted,    \* history: <<collection, doc_id, chunk_id>> of every point
                  \* a process_document call that returned has stored
    next_doc,     \* the number of the next document handed to process_document
    current_user_id,  \* simple_app.py:31, the one logged-in user of the app
    user_sessions,    \* simple_app.py:32, user id -> session
    clients,      \* history: the user each browser client last logged in as
    documents,    \* the user_documents table: (user_id, doc_id, filename)
    procs,        \* concurrent ingestions: each one's position and result
    cognito,      \* the module globals of aws_cognito.py
    db_manager,   \* the fields of database.DatabaseManager
    chat_messages \* the chat_messages table, in insertion order

app_vars == <<current_user_id, user_sessions, clients>>

service_vars == <<procs, cognito, db_manager, chat_messages>>

vars == <<ct, collections, last, persisted, next_doc, current_user_id,
          user_sessions, clients, documents, procs, cognito, db_manager,
          chat_messages>>

(***************************************************************************)
(* Bounds of the model.                                                    *)
(***************************************************************************)
MaxLen == 6        \* longest text handed to chunk_text in SpecChunk
MaxWindow == 4     \* largest chunk_size handed to chunk_text in SpecChunk
MaxChunks == 5     \* longest chunk list handed to upload_chunks_to_qdrant
LongLen == 1001    \* length of the longest file content: two default windows
MaxDocs == 2       \* documents ingested one after another in Spec
MaxFiles == 3      \* files handed to one process_uploaded_file call
MaxChats == 1      \* chat queries answered in SpecSessions

Min(a, b) == IF a < b THEN a ELSE b

\* Body applied to the value of v, with v evaluated once.
With(v, Body(_)) == CHOOSE result \in {Body(x) : x \in {v}} : TRUE

(***************************************************************************)
(* chunk_text (document_processor.py:20-36).  chunk_from is the while loop *)
(* entered with the given start; Python's text[start:end] is               *)
(* SubSeq(text, start + 1, end).                                           *)
(***************************************************************************)
RECURSIVE chunk_from(_, _, _, _)
chunk_from(text, chunk_size, overlap, start) ==
    IF start < Len(text)
    THEN LET end == Min(start + chunk_size, Len(text))
             chunk == SubSeq(text, start + 1, end)
         IN  IF end = Len(text)
             THEN <<chunk>>
             ELSE <<chunk>> \o chunk_from(text, chunk_size, overlap,
                                          start + chunk_size - overlap)
    ELSE <<>>

\* A chunker that advances by a whole window, ignoring the overlap.
chunk_text_no_overlap(text, chunk_size, overlap) ==
    chunk_from(text, chunk_size, 0, 0)

\* A chunker whose loop lacks the `if end == text_length: break` of :31-32.
RECURSIVE chunk_from_unbroken(_, _, _, _)
chunk_from_unbroken(text, chunk_size, overlap, start) ==
    IF start < Len(text)
    THEN <<SubSeq(text, start + 1, Min(start + chunk_size, Len(text)))>> \o
         chunk_from_unbroken(text, chunk_size, overlap,
                             start + chunk_size - overlap)
    ELSE <<>>

chunk_text_runs_past_end(text, chunk_size, overlap) ==
    chunk_from_unbroken(text, chunk_size, overlap, 0)

\* A chunker that keeps whole windows only, dropping a shorter last slice.
chunk_text_full_windows(text, chunk_size, overlap) ==
    SelectSeq(chunk_from(text, chunk_size, overlap, 0),
              LAMBDA chunk : Len(chunk) = chunk_size)

chunk_text(text, chunk_size, overlap) ==
    chunk_from(text, chunk_size, overlap, 0)

(***************************************************************************)
(* The vector store (the Qdrant client of document_processor.py:14).       *)
(* collections maps each existing collection name to its configuration and *)
(* its points; a point is its id and payload (the vector is what the       *)
(* embedding model returns for payload.text and is not carried).           *)
(***************************************************************************)
Users == {"alice", "bob"}

VECTOR_SIZE == 384

NoValue == "None"

Whitespace == {" "}

EmptyStore == <<>>

\* One collection name for every user.
collection_name_shared(user_id) == "user_docs"

\* f"user_{user_id}_docs" (document_processor.py:264 and :289)
collection_name(user_id) == "user_" \o user_id \o "_docs"

\* f"{chunk['doc_id']}_{chunk['chunk_id']}" (document_processor.py:353)
original_id(chunk) == chunk.doc_id \o "_" \o ToString(chunk.chunk_id)

\* client.collection_exists
collection_exists(cols, name) == name \in DOMAIN cols

\* client.create_collection with VectorParams(size, distance)
create_collection(cols, name) ==
    cols @@ (name :> [size |-> VECTOR_SIZE, distance |-> "Cosine", points |-> {}])

\* client.upsert: a point replaces the stored point of the same id
upsert(cols, name, new_points) ==
    LET new_ids == {new_points[k].id : k \in 1..Len(new_points)}
        kept == {p \in cols[name].points : p.id \notin new_ids}
    IN  [cols EXCEPT ![name].points =
            kept \cup {new_points[k] : k \in 1..Len(new_points)}]

(***************************************************************************)
(* Which client call of one gateway call raises (at most one: the first    *)
(* raising call ends the gateway call), and what embedding_model.embed     *)
(* does for one chunk: returns a vector, raises, or returns nothing.       *)
(***************************************************************************)
Faults == {"none", "get_collections", "collection_exists",
           "create_collection", "upsert"}

EmbOutcomes == {"ok", "raise", "none"}

(***************************************************************************)
(* create_user_collection (document_processor.py:262-272): the result, the *)
(* store afterwards and the client calls issued, in order.                 *)
(***************************************************************************)
\* A create_user_collection that creates without asking whether the
\* collection exists, replacing what is there.
create_user_collection_always(user_id, cols, fault) ==
    LET name == collection_name(user_id)
    IN  [status |-> "ok", ret |-> name,
         cols |-> [n \in DOMAIN cols \cup {name} |->
                     IF n = name
                     THEN [size |-> VECTOR_SIZE, distance |-> "Cosine",
                           points |-> {}]
                     ELSE cols[n]],
         calls |-> <<<<"create_collection", name>>>>]

create_user_collection(user_id, cols, fault) ==
    LET name == collection_name(user_id)
        asked == <<<<"collection_exists", name>>>>
    IN  IF fault = "collection_exists"
        THEN [status |-> "error", ret |-> NoValue, cols |-> cols, calls |-> asked]
        ELSE IF ~collection_exists(cols, name)
        THEN IF fault = "create_collection"
             THEN [status |-> "error", ret |-> NoValue, cols |-> cols,
                   calls |-> asked \o <<<<"create_collection", name>>>>]
             ELSE [status |-> "ok", ret |-> name,
                   cols |-> create_collection(cols, name),
                   calls |-> asked \o <<<<"create_collection", name>>>>]
        ELSE [status |-> "ok", ret |-> name, cols |-> cols, calls |-> asked]

(***************************************************************************)
(* upload_chunks_to_qdrant (document_processor.py:286-383).  chunks is a   *)
(* sequence of records [doc_id, filename, chunk_id, chunk_text]; emb[k] is *)
(* what embedding_model.embed does for chunks[k].  Python's enumerate      *)
(* index of chunks[k] is k - 1.                                            *)
(***************************************************************************)
\* not chunk_text or len(chunk_text.strip()) == 0   (:331)
is_blank(text) == \A k \in 1..Len(text) : text[k] \in Whitespace

\* A loop body that embeds and keeps blank chunks too.
chunk_fate_keeps_blank(chunk, outcome) ==
    IF outcome = "raise" THEN "embed_raised"
    ELSE IF outcome = "none" THEN "no_embedding"
    ELSE "point"

\* One iteration of the loop at :326-361: what becomes of the chunk.
chunk_fate(chunk, outcome) ==
    IF is_blank(chunk.chunk_text) THEN "blank"
    ELSE IF outcome = "raise" THEN "embed_raised"
    ELSE IF outcome = "none" THEN "no_embedding"
    ELSE "point"

\* PointStruct(id=i, vector=..., payload={...})   (:345-355)
make_point(i, chunk) ==
    [id |-> i,
     payload |-> [doc_id |-> chunk.doc_id,
                  filename |-> chunk.filename,
                  chunk_id |-> chunk.chunk_id,
                  text |-> chunk.chunk_text,
                  original_id |-> original_id(chunk)]]

\* A connection test whose failure is not noticed.
test_connection_ignored(fault) == "ok"

\* client.get_collections() inside try/except/raise   (:295-302)
test_connection(fault) == IF fault = "get_collections" THEN "error" ELSE "ok"

\* An upsert whose failure is logged and swallowed.
upsert_points_swallowed(cols, name, points, fault) ==
    IF fault = "upsert"
    THEN [status |-> "ok", cols |-> cols]
    ELSE [status |-> "ok", cols |-> upsert(cols, name, points)]

\* client.upsert(collection_name, points) inside try/except/raise (:369-380)
upsert_points(cols, name, points, fault) ==
    IF fault = "upsert"
    THEN [status |-> "error", cols |-> cols]
    ELSE [status |-> "ok", cols |-> upsert(cols, name, points)]

\* A loop that numbers the points it keeps 0, 1, 2, ... without gaps.
build_points_dense_ids(chunks, emb) ==
    With([k \in 1..Len(chunks) |-> chunk_fate(chunks[k], emb[k])],
         LAMBDA fates :
            LET Embedded(k) == fates[k] # "blank"
                Kept(k) == fates[k] = "point"
                idx == [k \in 1..Len(chunks) |-> k]
            IN  [fates |-> fates,
                 points |-> With(SelectSeq(idx, Kept), LAMBDA kept :
                    [j \in 1..Len(kept) |-> make_point(j - 1, chunks[kept[j]])]),
                 embed_calls |-> With(SelectSeq(idx, Embedded), LAMBDA embedded :
                    [j \in 1..Len(embedded) |-> <<"embed", embedded[j] - 1>>])])

\* The loop at :324-361: each chunk's fate, the points built and the
\* embedding calls issued, in order.
build_points(chunks, emb) ==
    With([k \in 1..Len(chunks) |-> chunk_fate(chunks[k], emb[k])],
         LAMBDA fates :
            LET Embedded(k) == fates[k] # "blank"
                Kept(k) == fates[k] = "point"
                idx == [k \in 1..Len(chunks) |-> k]
            IN  [fates |-> fates,
                 points |-> With(SelectSeq(idx, Kept), LAMBDA kept :
                    [j \in 1..Len(kept) |->
                        make_point(kept[j] - 1, chunks[kept[j]])]),
                 embed_calls |-> With(SelectSeq(idx, Embedded), LAMBDA embedded :
                    [j \in 1..Len(embedded) |-> <<"embed", embedded[j] - 1>>])])

UploadRaised(stage, store, issued) ==
    [status |-> "error", error |-> stage, ret |-> NoValue, cols |-> store,
     calls |-> issued, fates |-> <<>>, points |-> <<>>]

\* The upsert call as the client sees it: collection and ids of the batch.
upsert_call(name, points) ==
    <<"upsert", name, {points[j].id : j \in 1..Len(points)}>>

\* An upload that sends its batch to the store even when the batch is empty.
upload_points_always_upserts(chunks, name, cols, fault, emb, issued) ==
    With(build_points(chunks, emb), LAMBDA built :
    With(upsert_points(cols, name, built.points, fault), LAMBDA sent :
        [status |-> sent.status,
         error |-> IF sent.status = "error" THEN "upsert" ELSE NoValue,
         ret |-> IF sent.status = "error" THEN NoValue ELSE Len(built.points),
         cols |-> sent.cols,
         calls |-> issued \o built.embed_calls \o
                   <<upsert_call(name, built.points)>>,
         fates |-> built.fates,
         points |-> built.points]))

\* An upload that numbers its points after the points the collection holds,
\* so that no stored point is ever replaced.
upload_points_fresh_ids(chunks, name, cols, fault, emb, issued) ==
    With(build_points(chunks, emb), LAMBDA built :
    With([j \in 1..Len(built.points) |->
             [built.points[j] EXCEPT
                 !.id = Cardinality(cols[name].points) + j - 1]],
         LAMBDA points :
        IF Len(points) = 0
        THEN [status |-> "ok", error |-> NoValue, ret |-> 0, cols |-> cols,
              calls |-> issued \o built.embed_calls, fates |-> built.fates,
              points |-> points]
        ELSE With(upsert_points(cols, name, points, fault), LAMBDA sent :
            [status |-> sent.status,
             error |-> IF sent.status = "error" THEN "upsert" ELSE NoValue,
             ret |-> IF sent.status = "error" THEN NoValue ELSE Len(points),
             cols |-> sent.cols,
             calls |-> issued \o built.embed_calls \o
                       <<upsert_call(name, points)>>,
             fates |-> built.fates,
             points |-> points])))

\* The call from its loop on (:324-383), the collection being ready.
upload_points(chunks, name, cols, fault, emb, issued) ==
    With(build_points(chunks, emb), LAMBDA built :
        IF Len(built.points) = 0
        THEN [status |-> "ok", error |-> NoValue, ret |-> 0, cols |-> cols,
              calls |-> issued \o built.embed_calls, fates |-> built.fates,
              points |-> built.points]
        ELSE With(upsert_points(cols, name, built.points, fault), LAMBDA sent :
            [status |-> sent.status,
             error |-> IF sent.status = "error" THEN "upsert" ELSE NoValue,
             ret |-> IF sent.status = "error" THEN NoValue ELSE Len(built.points),
             cols |-> sent.cols,
             calls |-> issued \o built.embed_calls \o
                       <<upsert_call(name, built.points)>>,
             fates |-> built.fates,
             points |-> built.points]))

upload_chunks_to_qdrant(chunks, user_id, cols, fault, emb) ==
    LET name == collection_name(user_id)
        conn == <<<<"get_collections">>>>
    IN  IF test_connection(fault) = "error"
        THEN UploadRaised("get_collections", cols, conn)
        ELSE With(create_user_collection(user_id, cols, fault), LAMBDA made :
            IF made.status = "error"
            THEN UploadRaised("create_user_collection", made.cols,
                              conn \o made.calls)
            ELSE upload_points(chunks, name, made.cols, fault, emb,
                               conn \o made.calls))

(***************************************************************************)
(* File names.  A name is a sequence of characters; suffix is pathlib's    *)
(* Path(filename).suffix and lower is str.lower (document_processor.py:226)*)
(***************************************************************************)
UpperCase == <<"A", "B", "C", "D", "E", "F", "G", "H", "I", "J", "K",
               "L", "M", "N", "O", "P", "Q", "R", "S", "T", "U", "V",
               "W", "X", "Y", "Z">>

LowerCase == <<"a", "b", "c", "d", "e", "f", "g", "h", "i", "j", "k",
               "l", "m", "n", "o", "p", "q", "r", "s", "t", "u", "v",
               "w", "x", "y", "z">>

lower_char(c) ==
    IF \E k \in 1..Len(UpperCase) : UpperCase[k] = c
    THEN LowerCase[CHOOSE k \in 1..Len(UpperCase) : UpperCase[k] = c]
    ELSE c

lower(s) == [k \in 1..Len(s) |-> lower_char(s[k])]

\* The name from its last dot on, unless that dot starts or ends the name.
suffix(name) ==
    LET dots == {k \in 1..Len(name) : name[k] = "."}
        i == CHOOSE k \in dots : \A j \in dots : j <= k
    IN  IF dots # {} /\ 1 < i /\ i < Len(name)
        THEN SubSeq(name, i, Len(name))
        ELSE <<>>

\* ['.txt', '.md', '.csv', '.json']   (:230)
TextExtensions ==
    {<<".", "t", "x", "t">>, <<".", "m", "d">>, <<".", "c", "s", "v">>,
     <<".", "j", "s", "o", "n">>}

\* ['.png', '.jpg', '.jpeg', '.tif', '.tiff', '.bmp', '.gif']   (:234)
ImageExtensions ==
    {<<".", "p", "n", "g">>, <<".", "j", "p", "g">>,
     <<".", "j", "p", "e", "g">>, <<".", "t", "i", "f">>,
     <<".", "t", "i", "f", "f">>, <<".", "b", "m", "p">>,
     <<".", "g", "i", "f">>}

\* '.pdf'   (:238)
PdfExtension == <<".", "p", "d", "f">>

\* The file names handed to process_document: every known extension, some
\* in upper or mixed case, and names whose extension is unknown or absent.
FileNames ==
    {<<"f", ".", "t", "x", "t">>, <<"f", ".", "m", "d">>,
     <<"f", ".", "c", "s", "v">>, <<"f", ".", "j", "s", "o", "n">>,
     <<"f", ".", "p", "n", "g">>, <<"f", ".", "j", "p", "g">>,
     <<"f", ".", "j", "p", "e", "g">>, <<"f", ".", "t", "i", "f">>,
     <<"f", ".", "t", "i", "f", "f">>, <<"f", ".", "b", "m", "p">>,
     <<"f", ".", "g", "i", "f">>, <<"f", ".", "p", "d", "f">>,
     <<"f", ".", "T", "X", "T">>, <<"f", ".", "P", "d", "f">>,
     <<"f", ".", "J", "P", "G">>, <<"f", ".", "w", "e", "b", "p">>,
     <<"f", ".", "d", "o", "c", "x">>, <<"R", "E", "A", "D", "M", "E">>,
     <<".", "t", "x", "t">>,
     <<"f", ".", "t", "x", "t", ".", "b", "a", "k">>,
     <<"f", ".", "p", "d", "f", ".", "p", "n", "g">>}

(***************************************************************************)
(* Files.  A file is what the extractors can see of it: whether the path   *)
(* exists, its bytes (one per character, none for a zero-length file; a    *)
(* BadByte is no valid UTF-8), what PIL and pytesseract make of it (whether *)
(* Image.open and load succeed, and the OCR text), and what PyMuPDF makes  *)
(* of it (whether fitz.open succeeds on the path and on a temporary copy,  *)
(* and for each page whether get_text() raises, and its text).             *)
(***************************************************************************)
NoImage == [opens |-> FALSE, ocr |-> <<>>]

Image(ocr) == [opens |-> TRUE, ocr |-> ocr]

Page(text) == [raises |-> FALSE, text |-> text]

BadPage == [raises |-> TRUE, text |-> <<>>]

NotPdf == [primary |-> FALSE, fallback |-> FALSE, pages |-> <<>>]

Pdf(primary, pages) == [primary |-> primary, fallback |-> TRUE, pages |-> pages]

File(text, image, pdf) == [exists |-> TRUE, text |-> text, image |-> image, pdf |-> pdf]

MissingFile == [exists |-> FALSE, text |-> <<>>, image |-> NoImage, pdf |-> NotPdf]

LongText == [k \in 1..LongLen |-> IF k % 2 = 1 THEN "a" ELSE "b"]

\* A byte that is not valid UTF-8, and the character U+FFFD that
\* open(..., encoding='utf-8', errors='replace') reads in its place.
BadByte == "xFF"

Replacement == "?"

\* f.read() of a file opened with errors='replace'   (:189-190)
decode_replace(bytes) ==
    [k \in 1..Len(bytes) |->
        IF bytes[k] = BadByte THEN Replacement ELSE bytes[k]]

\* The content of a file that is no text.
Garbled == <<BadByte>>

HelloWorld == <<"h", "e", "l", "l", "o", " ", "w", "o", "r", "l", "d">>

Files ==
    {MissingFile,
     File(<<>>, NoImage, NotPdf),                         \* zero-length
     File(<<"h", "i">>, NoImage, NotPdf),                 \* plain text
     File(HelloWorld, NoImage, NotPdf),
     File(<<" ">>, NoImage, NotPdf),                      \* blank text
     File(LongText, NoImage, NotPdf),                     \* two windows of text
     File(Garbled, Image(<<"o", "k">>), NotPdf),          \* image with text
     File(Garbled, Image(<<" ">>), NotPdf),               \* image without text
     File(Garbled, NoImage, Pdf(TRUE, <<Page(<<"p">>), Page(<<"q">>)>>)),
     File(Garbled, NoImage,
          Pdf(FALSE, <<Page(<<"p">>), BadPage, Page(<<"r">>)>>)),
     File(Garbled, NoImage, Pdf(TRUE, <<Page(<<" ">>)>>)),  \* scanned PDF
     File(Garbled, NoImage, Pdf(TRUE, <<BadPage, BadPage>>)),  \* no page reads
     File(Garbled, NoImage, NotPdf)}                      \* no known format

\* "[No text could be extracted from this image]"   (:65)
NoImageText ==
    <<"[", "N", "o", " ", "t", "e", "x", "t", " ", "c", "o", "u", "l",
      "d", " ", "b", "e", " ", "e", "x", "t", "r", "a", "c", "t", "e",
      "d", " ", "f", "r", "o", "m", " ", "t", "h", "i", "s", " ", "i",
      "m", "a", "g", "e", "]">>

\* "[This PDF appears to contain no extractable text. It may be scanned or
\* image-based.]"   (:144)
NoPdfText ==
    <<"[", "T", "h", "i", "s", " ", "P", "D", "F", " ", "a", "p", "p",
      "e", "a", "r", "s", " ", "t", "o", " ", "c", "o", "n", "t", "a",
      "i", "n", " ", "n", "o", " ", "e", "x", "t", "r", "a", "c", "t",
      "a", "b", "l", "e", " ", "t", "e", "x", "t", ".", " ", "I", "t",
      " ", "m", "a", "y", " ", "b", "e", " ", "s", "c", "a", "n", "n",
      "e", "d", " ", "o", "r", " ", "i", "m", "a", "g", "e", "-", "b",
      "a", "s", "e", "d", ".", "]">>

(***************************************************************************)
(* The extractors (document_processor.py:38-214).  env is what the store   *)
(* and the embedding model do during the variant's upload: env.fault, and  *)
(* env.emb[k] for the k-th chunk.  A variant's result carries the store    *)
(* afterwards, the text it extracted, what its upload did, and whether it  *)
(* left its temporary file behind.                                         *)
(***************************************************************************)
CHUNK_SIZE == 1000

OVERLAP == 200

NoUpload == [status |-> "not called", error |-> NoValue, ret |-> NoValue,
             calls |-> <<>>, fates |-> <<>>, points |-> <<>>]

VariantRaised(variant, error, cols, text, upload, temp_left) ==
    [variant |-> variant, status |-> "error", error |-> error, ret |-> NoValue,
     cols |-> cols, text |-> text, upload |-> upload, temp_left |-> temp_left,
     opens |-> <<>>]

\* A tagging that counts the chunks from 1.
tag_chunks_one_based(chunks, filename, doc_id) ==
    [k \in 1..Len(chunks) |->
        [doc_id |-> doc_id, filename |-> filename, chunk_id |-> k,
         chunk_text |-> chunks[k]]]

\* for idx, chunk in enumerate(chunks): processed_chunks.append({...})
tag_chunks(chunks, filename, doc_id) ==
    [k \in 1..Len(chunks) |->
        [doc_id |-> doc_id, filename |-> filename, chunk_id |-> k - 1,
         chunk_text |-> chunks[k]]]

\* An extractor tail that returns the chunks without uploading them.
chunk_and_upload_unsent(variant, text, filename, doc_id, user_id, cols, env, temp) ==
    [variant |-> variant, status |-> "ok", error |-> NoValue,
     ret |-> tag_chunks(chunk_text(text, CHUNK_SIZE, OVERLAP), filename, doc_id),
     cols |-> cols, text |-> text, upload |-> NoUpload, temp_left |-> FALSE,
     opens |-> <<>>]

\* The common tail of the three extractors: chunk_text(text), tag, upload,
\* return processed_chunks; `temp` says a temporary copy exists.
chunk_and_upload(variant, text, filename, doc_id, user_id, cols, env, temp) ==
    With(tag_chunks(chunk_text(text, CHUNK_SIZE, OVERLAP), filename, doc_id),
         LAMBDA processed_chunks :
    With(upload_chunks_to_qdrant(processed_chunks, user_id, cols,
                                 env.fault, env.emb),
         LAMBDA up :
            [variant |-> variant,
             status |-> up.status,
             error |-> IF up.status = "error" THEN "upload" ELSE NoValue,
             ret |-> IF up.status = "error" THEN NoValue ELSE processed_chunks,
             cols |-> up.cols,
             text |-> text,
             upload |-> [status |-> up.status, error |-> up.error,
                         ret |-> up.ret, calls |-> up.calls,
                         fates |-> up.fates, points |-> up.points],
             temp_left |-> up.status = "error" /\ temp,
             opens |-> <<>>]))

\* A text variant that reads with errors='strict': a byte that is no UTF-8
\* makes f.read() raise.
process_text_file_strict(file, filename, doc_id, user_id, cols, env) ==
    IF ~file.exists
    THEN VariantRaised("text", "FileNotFoundError", cols, <<>>, NoUpload, FALSE)
    ELSE IF Len(file.text) = 0
    THEN VariantRaised("text", "ValueError", cols, <<>>, NoUpload, FALSE)
    ELSE IF \E k \in 1..Len(file.text) : file.text[k] = BadByte
    THEN VariantRaised("text", "UnicodeDecodeError", cols, <<>>, NoUpload, FALSE)
    ELSE chunk_and_upload("text", file.text, filename, doc_id, user_id, cols,
                          env, FALSE)

\* process_text_file   (:173-214).  An error is named by its cause; what the
\* caller gets is Exception("Error processing text file: <cause>") (:212-214),
\* and likewise for the other variants and for process_document.
process_text_file(file, filename, doc_id, user_id, cols, env) ==
    IF ~file.exists
    THEN VariantRaised("text", "FileNotFoundError", cols, <<>>, NoUpload, FALSE)
    ELSE IF Len(file.text) = 0
    THEN VariantRaised("text", "ValueError", cols, <<>>, NoUpload, FALSE)
    ELSE chunk_and_upload("text", decode_replace(file.text), filename, doc_id,
                          user_id, cols, env, FALSE)

\* An image variant that chunks whatever the OCR returned.
process_image_no_sentinel(file, filename, doc_id, user_id, cols, env) ==
    IF ~file.exists
    THEN VariantRaised("image", "FileNotFoundError", cols, <<>>, NoUpload, FALSE)
    ELSE IF ~file.image.opens
    THEN VariantRaised("image", "Failed to open image", cols, <<>>, NoUpload,
                       FALSE)
    ELSE chunk_and_upload("image", file.image.ocr, filename, doc_id, user_id,
                          cols, env, FALSE)

\* process_image   (:38-86)
process_image(file, filename, doc_id, user_id, cols, env) ==
    IF ~file.exists
    THEN VariantRaised("image", "FileNotFoundError", cols, <<>>, NoUpload, FALSE)
    ELSE IF ~file.image.opens
    THEN VariantRaised("image", "Failed to open image", cols, <<>>, NoUpload,
                       FALSE)
    ELSE LET text == IF is_blank(file.image.ocr) THEN NoImageText
                     ELSE file.image.ocr
         IN  chunk_and_upload("image", text, filename, doc_id, user_id, cols,
                              env, FALSE)

\* A page loop that stops at the first page whose extraction raises.
RECURSIVE pages_text_until_failure(_)
pages_text_until_failure(pages) ==
    IF Len(pages) = 0 \/ Head(pages).raises THEN <<>>
    ELSE Head(pages).text \o pages_text_until_failure(Tail(pages))

\* The text of the pages that do not raise, in page order   (:129-138)
RECURSIVE pages_text(_)
pages_text(pages) ==
    IF Len(pages) = 0 THEN <<>>
    ELSE (IF Head(pages).raises THEN <<>> ELSE Head(pages).text)
         \o pages_text(Tail(pages))

\* The fitz.open calls of process_pdf (:103-127), in order: on the path,
\* and after that failed on the temporary copy.
pdf_opens(file) == IF file.pdf.primary THEN <<"path">> ELSE <<"path", "temp">>

\* A PDF variant without the retry on a temporary copy.
process_pdf_no_fallback(file, filename, doc_id, user_id, cols, env) ==
    IF ~file.exists
    THEN VariantRaised("pdf", "FileNotFoundError", cols, <<>>, NoUpload, FALSE)
    ELSE IF Len(file.text) = 0
    THEN VariantRaised("pdf", "ValueError", cols, <<>>, NoUpload, FALSE)
    ELSE IF ~file.pdf.primary
    THEN [VariantRaised("pdf", "Failed to open PDF", cols, <<>>, NoUpload, FALSE)
             EXCEPT !.opens = <<"path">>]
    ELSE LET all_text == pages_text(file.pdf.pages)
             text == IF is_blank(all_text) THEN NoPdfText ELSE all_text
         IN  [chunk_and_upload("pdf", text, filename, doc_id, user_id, cols,
                               env, FALSE)
                 EXCEPT !.opens = <<"path">>]

\* process_pdf   (:89-170)
process_pdf(file, filename, doc_id, user_id, cols, env) ==
    IF ~file.exists
    THEN VariantRaised("pdf", "FileNotFoundError", cols, <<>>, NoUpload, FALSE)
    ELSE IF Len(file.text) = 0
    THEN VariantRaised("pdf", "ValueError", cols, <<>>, NoUpload, FALSE)
    ELSE IF ~file.pdf.primary /\ ~file.pdf.fallback
    THEN [VariantRaised("pdf", "Failed to open PDF", cols, <<>>, NoUpload, FALSE)
             EXCEPT !.opens = pdf_opens(file)]
    ELSE LET temp == ~file.pdf.primary
             all_text == pages_text(file.pdf.pages)
             text == IF is_blank(all_text) THEN NoPdfText ELSE all_text
         IN  [chunk_and_upload("pdf", text, filename, doc_id, user_id, cols,
                               env, temp)
                 EXCEPT !.opens = pdf_opens(file)]

(***************************************************************************)
(* process_document (document_processor.py:216-258).  variant_order is the *)
(* if/elif chain on the lower-cased extension: the variants to try, in     *)
(* order, a later one only after the earlier one raised.                   *)
(***************************************************************************)
\* A dispatch that compares the extension as written, without lower().
variant_order_case_sensitive(filename) ==
    LET file_extension == suffix(filename)
    IN  IF file_extension \in TextExtensions THEN <<"text">>
        ELSE IF file_extension \in ImageExtensions THEN <<"image">>
        ELSE IF file_extension = PdfExtension THEN <<"pdf">>
        ELSE <<"text", "image">>

\* A dispatch that tries the image variant before the text variant.
variant_order_image_first(filename) ==
    LET file_extension == lower(suffix(filename))
    IN  IF file_extension \in TextExtensions THEN <<"text">>
        ELSE IF file_extension \in ImageExtensions THEN <<"image">>
        ELSE IF file_extension = PdfExtension THEN <<"pdf">>
        ELSE <<"image", "text">>

variant_order(filename) ==
    LET file_extension == lower(suffix(filename))
    IN  IF file_extension \in TextExtensions THEN <<"text">>
        ELSE IF file_extension \in ImageExtensions THEN <<"image">>
        ELSE IF file_extension = PdfExtension THEN <<"pdf">>
        ELSE <<"text", "image">>

run_variant(variant, file, filename, doc_id, user_id, cols, env) ==
    IF variant = "text"
    THEN process_text_file(file, filename, doc_id, user_id, cols, env)
    ELSE IF variant = "image"
    THEN process_image(file, filename, doc_id, user_id, cols, env)
    ELSE process_pdf(file, filename, doc_id, user_id, cols, env)

Returned(attempts) ==
    With(attempts[Len(attempts)], LAMBDA final :
        [status |-> final.status, error |-> final.error, ret |-> final.ret,
         cols |-> final.cols, attempts |-> attempts])

\* A process_document that dispatches without looking whether the path
\* exists.
process_document_unchecked(file, filename, doc_id, user_id, cols, env1, env2) ==
    Returned(<<run_variant(variant_order(filename)[1], file, filename, doc_id,
                           user_id, cols, env1)>>)

process_document(file, filename, doc_id, user_id, cols, env1, env2) ==
    IF ~file.exists
    THEN [status |-> "error", error |-> "FileNotFoundError", ret |-> NoValue,
          cols |-> cols, attempts |-> <<>>]
    ELSE
    With(variant_order(filename), LAMBDA order :
    With(run_variant(order[1], file, filename, doc_id, user_id, cols, env1),
         LAMBDA first :
        IF Len(order) = 1 \/ first.status = "ok"
        THEN Returned(<<first>>)
        ELSE With(run_variant(order[2], file, filename, doc_id, user_id,
                              first.cols, env2),
                  LAMBDA second :
            IF second.status = "ok"
            THEN Returned(<<first, second>>)
            ELSE [status |-> "error", error |-> "Unsupported file format",
                  ret |-> NoValue, cols |-> second.cols,
                  attempts |-> <<first, second>>])))

(***************************************************************************)
(* The application around the pipeline, at rest: nobody logged in          *)
(* (simple_app.py:31-32), no document record, no ingestion running, the    *)
(* authentication and database modules not configured.                    *)
(***************************************************************************)
Clients == {"c1", "c2"}

\* user_sessions[user_id] = {"username": ..., "logged_in": True, ...}
Session(username) == [username |-> username, logged_in |-> TRUE]

NobodyLoggedIn ==
    /\ current_user_id = NoValue
    /\ user_sessions = <<>>
    /\ clients = [c \in Clients |-> NoValue]

NoCognito == [cognito_client |-> FALSE, COGNITO_USER_POOL_ID |-> FALSE,
              COGNITO_APP_CLIENT_ID |-> FALSE, COGNITO_APP_CLIENT_SECRET |-> FALSE]

NoDatabase == [engine |-> NoValue, SessionLocal |-> NoValue, db_type |-> NoValue]

ServicesIdle ==
    /\ procs = <<>>
    /\ cognito = NoCognito
    /\ db_manager = NoDatabase
    /\ chat_messages = <<>>

(***************************************************************************)
(* SpecChunk: chunk_text applied once to a text over Chars of at most      *)
(* MaxLen characters, with 0 <= overlap < chunk_size <= MaxWindow.         *)
(***************************************************************************)
Chars == {"a", "b"}

Texts(n) == UNION {[1..k -> Chars] : k \in 0..n}

NoCall == [op |-> "none"]

InitChunk ==
    /\ \E text \in Texts(MaxLen), chunk_size \in 1..MaxWindow :
       \E overlap \in 0..(chunk_size - 1) :
          ct = [text |-> text, chunk_size |-> chunk_size, overlap |-> overlap,
                chunks |-> <<>>, done |-> FALSE]
    /\ collections = EmptyStore
    /\ last = NoCall
    /\ persisted = {}
    /\ next_doc = 1
    /\ NobodyLoggedIn
    /\ documents = {}
    /\ ServicesIdle

ChunkCall ==
    /\ ~ct.done
    /\ ct' = [ct EXCEPT !.chunks = chunk_text(ct.text, ct.chunk_size, ct.overlap),
                        !.done = TRUE]
    /\ UNCHANGED <<collections, last, persisted, next_doc>>
    /\ UNCHANGED <<app_vars, documents, service_vars>>

NextChunk == ChunkCall

SpecChunk == InitChunk /\ [][NextChunk]_vars

(***************************************************************************)
(* SpecChunkLoop: the while loop of chunk_text taken one iteration at a    *)
(* time, for the same texts, windows and overlaps as SpecChunk.  ct.start  *)
(* and ct.chunks are the locals of :22-23; ct.done is set when the         *)
(* function returns.  An iteration that is enabled is eventually taken:    *)
(* the interpreter keeps running the loop.                                 *)
(***************************************************************************)
\* A loop that steps back by the overlap without moving on by the window.
advance_by_overlap_only(start, chunk_size, overlap) == start - overlap

\* start += chunk_size - overlap   (:34)
advance(start, chunk_size, overlap) == start + chunk_size - overlap

InitChunkLoop ==
    /\ \E text \in Texts(MaxLen), chunk_size \in 1..MaxWindow :
       \E overlap \in 0..(chunk_size - 1) :
          ct = [text |-> text, chunk_size |-> chunk_size, overlap |-> overlap,
                chunks |-> <<>>, start |-> 0, done |-> FALSE]
    /\ collections = EmptyStore
    /\ last = NoCall
    /\ persisted = {}
    /\ next_doc = 1
    /\ NobodyLoggedIn
    /\ documents = {}
    /\ ServicesIdle

\* One evaluation of `while start < text_length` and, when it holds, one
\* pass through the body (:26-34); otherwise `return chunks` (:36).
LoopIteration ==
    /\ ~ct.done
    /\ IF ct.start < Len(ct.text)
       THEN \E end \in {Min(ct.start + ct.chunk_size, Len(ct.text))} :
              ct' = [ct EXCEPT
                       !.chunks = Append(@, SubSeq(ct.text, ct.start + 1, end)),
                       !.start = IF end = Len(ct.text) THEN @
                                 ELSE advance(@, ct.chunk_size, ct.overlap),
                       !.done = (end = Len(ct.text))]
       ELSE ct' = [ct EXCEPT !.done = TRUE]
    /\ UNCHANGED <<collections, last, persisted, next_doc>>
    /\ UNCHANGED <<app_vars, documents, service_vars>>

NextChunkLoop == LoopIteration

SpecChunkLoop ==
    InitChunkLoop /\ [][NextChunkLoop]_vars /\ WF_vars(LoopIteration)

(***************************************************************************)
(* SpecGateway: the Vector Store Gateway called directly.  The store       *)
(* starts in one of PreStores (states earlier gateway calls leave behind); *)
(* a behaviour is one upload_chunks_to_qdrant call, or any number of       *)
(* create_user_collection calls.                                           *)
(***************************************************************************)
AllOk(chunks) == [k \in 1..Len(chunks) |-> "ok"]

SeedChunks(doc_id, n) ==
    [k \in 1..n |-> [doc_id |-> doc_id, filename |-> "seed.txt",
                     chunk_id |-> k - 1, chunk_text |-> <<"s">>]]

StoreAfter(user_id, chunks) ==
    upload_chunks_to_qdrant(chunks, user_id, EmptyStore, "none", AllOk(chunks)).cols

PreStores == {EmptyStore, StoreAfter("alice", SeedChunks("d0", 3))}

NoChunkCall == [text |-> <<>>, chunk_size |-> 1, overlap |-> 0,
                chunks |-> <<>>, done |-> FALSE]

InitGateway ==
    /\ ct = NoChunkCall
    /\ collections \in PreStores
    /\ last = NoCall
    /\ persisted = {}
    /\ next_doc = 1
    /\ NobodyLoggedIn
    /\ documents = {}
    /\ ServicesIdle

\* What a caller's chunk is and what the embedding model does with it.
ChunkKinds == {"empty", "space", "ok", "raise", "none"}

KindText(kind) ==
    IF kind = "empty" THEN <<>> ELSE IF kind = "space" THEN <<" ">> ELSE <<"a">>

KindOutcome(kind) == IF kind \in {"raise", "none"} THEN kind ELSE "ok"

\* Whether the fault ends an upload for user_id before its loop over the
\* chunks, and whether it changes anything at all: create_collection is
\* called only for a missing collection, upsert only with a point to send.
EndsEarly(fault, user_id, cols) ==
    \/ fault \in {"get_collections", "collection_exists"}
    \/ fault = "create_collection" /\ ~collection_exists(cols, collection_name(user_id))

CanStrike(fault, user_id, cols, kinds) ==
    /\ fault = "create_collection" =>
          ~collection_exists(cols, collection_name(user_id))
    /\ fault = "upsert" => \E k \in DOMAIN kinds : kinds[k] = "ok"

UploadCall ==
    /\ last.op = "none"
    /\ \E user_id \in Users, n \in 0..MaxChunks, fault \in Faults :
       \E kinds \in [1..n -> IF EndsEarly(fault, user_id, collections)
                             THEN {"empty", "space", "ok"} ELSE ChunkKinds] :
          /\ CanStrike(fault, user_id, collections, kinds)
          /\ LET chunks == [k \in 1..n |->
                               [doc_id |-> "d1", filename |-> "notes.txt",
                                chunk_id |-> k - 1,
                                chunk_text |-> KindText(kinds[k])]]
                 emb == [k \in 1..n |-> KindOutcome(kinds[k])]
             IN  \E r \in {upload_chunks_to_qdrant(chunks, user_id, collections,
                                                   fault, emb)} :
                 /\ collections' = r.cols
                 /\ last' = [op |-> "upload_chunks_to_qdrant", user_id |-> user_id,
                             chunks |-> chunks, emb |-> emb, fault |-> fault,
                             before |-> collections, status |-> r.status,
                             error |-> r.error, ret |-> r.ret, calls |-> r.calls,
                             fates |-> r.fates, points |-> r.points]
    /\ UNCHANGED <<ct, persisted, next_doc>>
    /\ UNCHANGED <<app_vars, documents, service_vars>>

CreateCollectionCall ==
    /\ last.op \in {"none", "create_user_collection"}
    /\ \E user_id \in Users, fault \in {"none", "collection_exists", "create_collection"} :
          \E r \in {create_user_collection(user_id, collections, fault)} :
              /\ collections' = r.cols
              /\ last' = [op |-> "create_user_collection", user_id |-> user_id,
                          fault |-> fault, before |-> collections,
                          status |-> r.status, ret |-> r.ret, calls |-> r.calls]
    /\ UNCHANGED <<ct, persisted, next_doc>>
    /\ UNCHANGED <<app_vars, documents, service_vars>>

NextGateway == UploadCall \/ CreateCollectionCall

SpecGateway == InitGateway /\ [][NextGateway]_vars

(***************************************************************************)
(* SpecIngest: one process_document call, for any file name of FileNames   *)
(* and any file of Files, on a store drawn from PreStores.  env1 and env2  *)
(* are what the store and the embedding model do during the first and the  *)
(* second variant tried; a fault or an embedding failure that no call of   *)
(* the variant meets is the same as none, and is left out.                 *)
(***************************************************************************)
MaxDocChunks == Len(chunk_text(LongText, CHUNK_SIZE, OVERLAP))

Envs == [fault : Faults, emb : [1..MaxDocChunks -> EmbOutcomes]]

NoEnv == [fault |-> "none", emb |-> [k \in 1..MaxDocChunks |-> "ok"]]

FaultStage(fault) ==
    IF fault \in {"collection_exists", "create_collection"}
    THEN "create_user_collection"
    ELSE fault

EnvMet(env, attempt) ==
    /\ env.fault # "none" =>
          /\ attempt.upload.status = "error"
          /\ attempt.upload.error = FaultStage(env.fault)
    /\ env.fault = "create_collection" =>
          attempt.upload.calls[Len(attempt.upload.calls)][1] = "create_collection"
    /\ \A k \in 1..MaxDocChunks :
          env.emb[k] # "ok" =>
              /\ k <= Len(attempt.upload.fates)
              /\ attempt.upload.fates[k] \in {"embed_raised", "no_embedding"}

InitIngest ==
    /\ ct = NoChunkCall
    /\ collections \in PreStores
    /\ last = NoCall
    /\ persisted = {}
    /\ next_doc = 1
    /\ NobodyLoggedIn
    /\ documents = {}
    /\ ServicesIdle

\* One process_document call for doc_id, its file name, file and faults
\* drawn from the given sets.
ProcessDocument(doc_id, names, files, envs) ==
    \E user_id \in Users, filename \in names, file \in files, env1 \in envs :
    \E tried \in {process_document(file, filename, doc_id, user_id,
                                   collections, env1, NoEnv).attempts} :
       /\ IF Len(tried) = 0 THEN env1 = NoEnv ELSE EnvMet(env1, tried[1])
       /\ \E env2 \in IF Len(tried) = 2 THEN envs ELSE {NoEnv} :
          \E r \in {process_document(file, filename, doc_id, user_id,
                                     collections, env1, env2)} :
             /\ Len(tried) = 2 => EnvMet(env2, r.attempts[2])
             /\ collections' = r.cols
             /\ last' = [op |-> "process_document",
                         user_id |-> user_id, filename |-> filename,
                         doc_id |-> doc_id, file |-> file,
                         envs |-> <<env1, env2>>,
                         before |-> collections, status |-> r.status,
                         error |-> r.error, ret |-> r.ret,
                         attempts |-> r.attempts]
             /\ persisted' = persisted \cup
                   IF r.status = "ok"
                   THEN LET sent == r.attempts[Len(r.attempts)].upload.points
                        IN  {<<collection_name(user_id),
                               sent[k].payload.doc_id,
                               sent[k].payload.chunk_id>> : k \in 1..Len(sent)}
                   ELSE {}

DocumentCall ==
    /\ last.op = "none"
    /\ ProcessDocument("d1", FileNames, Files, Envs)
    /\ UNCHANGED <<ct, next_doc>>
    /\ UNCHANGED <<app_vars, documents, service_vars>>

\* process_text_file called for any file of Files, whatever its name.
TextFileCall ==
    /\ last.op = "none"
    /\ \E user_id \in Users, file \in Files, env \in Envs :
       \E r \in {process_text_file(file, <<"f", ".", "t", "x", "t">>, "d1",
                                    user_id, collections, env)} :
          /\ EnvMet(env, r)
          /\ collections' = r.cols
          /\ last' = [op |-> "process_text_file", user_id |-> user_id,
                      doc_id |-> "d1", file |-> file, env |-> env,
                      before |-> collections, status |-> r.status,
                      error |-> r.error, ret |-> r.ret, text |-> r.text,
                      upload |-> r.upload]
    /\ UNCHANGED <<ct, persisted, next_doc>>
    /\ UNCHANGED <<app_vars, documents, service_vars>>

\* process_document invoked again after it returned, no store call having
\* failed: the same file, name, doc_id and user, the embedding model doing
\* for each chunk what it did the first time, the store answering.
ReingestCall ==
    /\ last.op = "process_document"
    /\ last.status = "ok"
    /\ \A k \in 1..Len(last.attempts) : last.attempts[k].upload.status # "error"
    /\ \E r \in {process_document(last.file, last.filename, last.doc_id,
                                   last.user_id, collections,
                                   last.envs[1], last.envs[2])} :
          /\ collections' = r.cols
          /\ last' = [op |-> "process_document again",
                      user_id |-> last.user_id, filename |-> last.filename,
                      doc_id |-> last.doc_id, file |-> last.file,
                      envs |-> last.envs, before |-> collections,
                      first |-> [before |-> last.before, ret |-> last.ret],
                      status |-> r.status, error |-> r.error, ret |-> r.ret,
                      attempts |-> r.attempts]
    /\ UNCHANGED <<ct, persisted, next_doc>>
    /\ UNCHANGED <<app_vars, documents, service_vars>>

NextIngest == DocumentCall \/ TextFileCall \/ ReingestCall

SpecIngest == InitIngest /\ [][NextIngest]_vars

(***************************************************************************)
(* Spec: documents ingested one after another into one store that starts   *)
(* empty, each under a fresh doc_id (simple_app.py:133 draws a uuid4 per   *)
(* file), by either user.                                                  *)
(***************************************************************************)
\* str(uuid.uuid4()): an id no earlier document has
DocId(n) == "d" \o ToString(n)

SomeNames == {<<"f", ".", "t", "x", "t">>, <<"f", ".", "w", "e", "b", "p">>}

SomeFiles ==
    {File(<<"h", "i">>, NoImage, NotPdf),
     File(LongText, NoImage, NotPdf),
     File(Garbled, Image(<<"o", "k">>), NotPdf)}

\* The upsert may fail, and the embedding of a document's first chunk.
SomeEnvs ==
    {env \in Envs :
        /\ env.fault \in {"none", "upsert"}
        /\ env.emb[1] \in {"ok", "raise"}
        /\ \A k \in 2..MaxDocChunks : env.emb[k] = "ok"}

Init ==
    /\ ct = NoChunkCall
    /\ collections = EmptyStore
    /\ last = NoCall
    /\ persisted = {}
    /\ next_doc = 1
    /\ NobodyLoggedIn
    /\ documents = {}
    /\ ServicesIdle

Ingest ==
    /\ next_doc <= MaxDocs
    /\ ProcessDocument(DocId(next_doc), SomeNames, SomeFiles, SomeEnvs)
    /\ next_doc' = next_doc + 1
    /\ UNCHANGED ct
    /\ UNCHANGED <<app_vars, documents, service_vars>>

Next == Ingest

Spec == Init /\ [][Next]_vars

(***************************************************************************)
(* process_uploaded_file (simple_app.py:113-153).  An upload is the name   *)
(* and the file Gradio hands over; env is what the store, the embedding    *)
(* model and the database do while the file is processed: env.first during *)
(* process_document, env.again during the upload at :141, env.db for       *)
(* save_document_record.  A step is one pass of the loop: the entry it     *)
(* appends to results, what it adds to total_chunks, and what it did.      *)
(***************************************************************************)
Step(upload, doc_id, mark, chunks, cols, doc, again, record) ==
    [file_name |-> upload.name, doc_id |-> doc_id, mark |-> mark,
     chunks |-> chunks, cols |-> cols,
     doc |-> [status |-> doc.status, error |-> doc.error,
              variants |-> [k \in 1..Len(doc.attempts) |->
                               doc.attempts[k].variant]],
     stored |-> IF doc.status = "ok"
                THEN LET sent == doc.attempts[Len(doc.attempts)].upload.points
                     IN  {<<sent[k].payload.doc_id, sent[k].payload.chunk_id>> :
                             k \in 1..Len(sent)}
                ELSE {},
     again |-> again, record |-> record]

\* The body of the loop for one file   (:127-150)
upload_file(upload, doc_id, user_id, cols, env) ==
    With(process_document(upload.file, upload.name, doc_id, user_id, cols,
                          env.first, NoEnv),
         LAMBDA doc :
        IF doc.status = "error"
        THEN Step(upload, doc_id, "error", 0, doc.cols, doc,
                  "not called", "not called")
        ELSE IF Len(doc.ret) = 0
        THEN Step(upload, doc_id, "warning", 0, doc.cols, doc,
                  "not called", "not called")
        ELSE With(upload_chunks_to_qdrant(doc.ret, user_id, doc.cols,
                                          env.again.fault, env.again.emb),
                  LAMBDA again :
            IF again.status = "error"
            THEN Step(upload, doc_id, "error", 0, again.cols, doc,
                      "error", "not called")
            ELSE IF env.db = "raise"
            THEN Step(upload, doc_id, "error", 0, again.cols, doc,
                      "ok", "raised")
            ELSE Step(upload, doc_id, "ok", Len(doc.ret), again.cols, doc,
                      "ok", "saved")))

\* A loop that gives up at the first file whose processing raises.
RECURSIVE upload_files_until_failure(_, _, _, _, _)
upload_files_until_failure(files, envs, user_id, cols, doc_no) ==
    IF Len(files) = 0 THEN <<>>
    ELSE With(upload_file(Head(files), DocId(doc_no), user_id, cols, Head(envs)),
              LAMBDA step :
            IF step.mark = "error" THEN <<step>>
            ELSE <<step>> \o
                 upload_files_until_failure(Tail(files), Tail(envs), user_id,
                                            step.cols, doc_no + 1))

\* for file in files: try ... except   (:126-150), the steps in order
RECURSIVE upload_files(_, _, _, _, _)
upload_files(files, envs, user_id, cols, doc_no) ==
    IF Len(files) = 0 THEN <<>>
    ELSE With(upload_file(Head(files), DocId(doc_no), user_id, cols, Head(envs)),
              LAMBDA step :
            <<step>> \o upload_files(Tail(files), Tail(envs), user_id,
                                     step.cols, doc_no + 1))

RECURSIVE total_chunks(_)
total_chunks(steps) ==
    IF Len(steps) = 0 THEN 0 ELSE Head(steps).chunks + total_chunks(Tail(steps))

NotProcessed(message, cols) ==
    [message |-> message, documents |-> 0, total_chunks |-> 0,
     results |-> <<>>, steps |-> <<>>, cols |-> cols]

\* The call when doc_no - 1 documents got their uuid4 before it.
process_uploaded_file_from(files, user_id, cols, envs, doc_no) ==
    IF Len(files) = 0
    THEN NotProcessed("No files uploaded", cols)
    ELSE IF user_id = NoValue
    THEN NotProcessed("You must be logged in to upload documents", cols)
    ELSE With(upload_files(files, envs, user_id, cols, doc_no),
              LAMBDA steps :
            [message |-> "Processed",
             documents |-> Len(files),
             total_chunks |-> total_chunks(steps),
             results |-> [k \in 1..Len(steps) |->
                            [file_name |-> steps[k].file_name,
                             mark |-> steps[k].mark,
                             chunks |-> steps[k].chunks]],
             steps |-> steps,
             cols |-> steps[Len(steps)].cols])

\* user_id is the value of the global current_user_id when the call is made.
process_uploaded_file(files, user_id, cols, envs) ==
    process_uploaded_file_from(files, user_id, cols, envs, 1)

(***************************************************************************)
(* SpecUpload: one process_uploaded_file call with up to MaxFiles files,   *)
(* by a user who is logged in or by nobody, on an empty store.  A fault    *)
(* that no call of the step meets is the same as none, and is left out.    *)
(***************************************************************************)
Uploads ==
    {[name |-> <<"a", ".", "t", "x", "t">>,
      file |-> File(<<"h", "i">>, NoImage, NotPdf)],
     [name |-> <<"e", ".", "t", "x", "t">>,
      file |-> File(<<>>, NoImage, NotPdf)],
     [name |-> <<"p", ".", "p", "n", "g">>,
      file |-> File(Garbled, Image(<<"o", "k">>), NotPdf)]}

UpsertMayFail == {env \in Envs : env.fault \in {"none", "upsert"} /\ env.emb = NoEnv.emb}

UploadEnvs == [first : UpsertMayFail, again : UpsertMayFail, db : {"ok", "raise"}]

StepMet(env, step) ==
    /\ env.first.fault # "none" => step.doc.status = "error"
    /\ env.again.fault # "none" => step.again = "error"
    /\ env.db = "raise" => step.record = "raised"

\* An upload with an environment all of which it meets.  Whether the upsert
\* is called, and so can fail, depends on the file alone, not on the store.
UploadCases ==
    {c \in [upload : Uploads, env : UploadEnvs] :
        StepMet(c.env, upload_file(c.upload, DocId(1), "alice", EmptyStore, c.env))}

\* The state login (simple_app.py:289-307) leaves when client c1 logged in
\* as user_id, and the state before anybody did.
InitUpload ==
    /\ ct = NoChunkCall
    /\ collections = EmptyStore
    /\ last = NoCall
    /\ persisted = {}
    /\ next_doc = 1
    /\ \/ NobodyLoggedIn
       \/ \E user_id \in Users :
             /\ current_user_id = user_id
             /\ user_sessions = (user_id :> Session(user_id))
             /\ clients = [c \in Clients |-> IF c = "c1" THEN user_id ELSE NoValue]
    /\ documents = {}
    /\ ServicesIdle

UploadFilesCall ==
    /\ last.op = "none"
    /\ \E n \in 0..MaxFiles :
       \E cases \in [1..n -> UploadCases] :
       \E files \in {[k \in 1..n |-> cases[k].upload]},
          envs \in {[k \in 1..n |-> cases[k].env]} :
       \E r \in {process_uploaded_file(files, current_user_id, collections, envs)} :
          /\ \A k \in 1..n :
                IF k <= Len(r.steps) THEN StepMet(envs[k], r.steps[k])
                ELSE envs[k] = [first |-> NoEnv, again |-> NoEnv, db |-> "ok"]
          /\ collections' = r.cols
          /\ last' = [op |-> "process_uploaded_file",
                      user_id |-> current_user_id, files |-> files,
                      envs |-> envs, before |-> collections,
                      message |-> r.message, documents |-> r.documents,
                      total_chunks |-> r.total_chunks, results |-> r.results,
                      steps |-> r.steps]
          /\ persisted' = persisted \cup
                UNION {{<<collection_name(current_user_id), t[1], t[2]>> :
                          t \in r.steps[k].stored} : k \in 1..Len(r.steps)}
          /\ documents' = documents \cup
                {<<current_user_id, r.steps[k].doc_id, r.steps[k].file_name>> :
                    k \in {j \in 1..Len(r.steps) : r.steps[j].record = "saved"}}
    /\ UNCHANGED <<ct, next_doc>>
    /\ UNCHANGED <<app_vars, service_vars>>

NextUpload == UploadFilesCall

SpecUpload == InitUpload /\ [][NextUpload]_vars

(***************************************************************************)
(* SpecSessions: the Gradio app of simple_app.py serving two browser       *)
(* clients from one process.  login, process_uploaded_file and             *)
(* get_ai_response are handlers any client can trigger; each runs to its   *)
(* end before the next starts; they share the module globals               *)
(* current_user_id and user_sessions.  clients remembers whom each client  *)
(* logged in as.                                                           *)
(***************************************************************************)
\* sign_in under local authentication (aws_cognito.py:126-137)
local_sign_in(username) ==
    IF username # ""
    THEN [success |-> TRUE, user_id |-> username]
    ELSE [success |-> FALSE, user_id |-> NoValue]

\* get_query_engine (simple_app.py:47-111), the store answering: the user's
\* collection when it exists and holds points, otherwise None.
get_query_engine(user_id, cols) ==
    IF /\ collection_exists(cols, collection_name(user_id))
       /\ cols[collection_name(user_id)].points # {}
    THEN collection_name(user_id)
    ELSE NoValue

InitSessions ==
    /\ ct = NoChunkCall
    /\ collections = EmptyStore
    /\ last = NoCall
    /\ persisted = {}
    /\ next_doc = 1
    /\ NobodyLoggedIn
    /\ documents = {}
    /\ ServicesIdle

\* login (simple_app.py:289-307), the password given
Login ==
    \E c \in Clients, username \in Users \cup {""} :
    \E result \in {local_sign_in(username)} :
        /\ IF result.success
           THEN /\ current_user_id' = result.user_id
                /\ user_sessions' =
                      [u \in DOMAIN user_sessions \cup {result.user_id} |->
                          IF u = result.user_id THEN Session(username)
                          ELSE user_sessions[u]]
                /\ clients' = [clients EXCEPT ![c] = result.user_id]
           ELSE UNCHANGED <<current_user_id, user_sessions, clients>>
        /\ last' = [op |-> "login", client |-> c, username |-> username,
                    success |-> result.success]
        /\ UNCHANGED <<ct, collections, persisted, next_doc, documents,
                       service_vars>>

\* process_uploaded_file triggered by a client that logged in, for one
\* text file, the store and the database answering.
ClientUpload ==
    /\ next_doc <= MaxDocs
    /\ \E c \in Clients :
       /\ clients[c] # NoValue
       /\ \E r \in {process_uploaded_file_from(
                        <<[name |-> <<"a", ".", "t", "x", "t">>,
                           file |-> File(<<"h", "i">>, NoImage, NotPdf)]>>,
                        current_user_id, collections,
                        <<[first |-> NoEnv, again |-> NoEnv, db |-> "ok"]>>,
                        next_doc)} :
          /\ collections' = r.cols
          /\ last' = [op |-> "process_uploaded_file", client |-> c,
                      logged_in_as |-> clients[c], user_id |-> current_user_id,
                      before |-> collections, message |-> r.message,
                      results |-> r.results, steps |-> r.steps]
          /\ persisted' = persisted \cup
                UNION {{<<collection_name(current_user_id), t[1], t[2]>> :
                          t \in r.steps[k].stored} : k \in 1..Len(r.steps)}
          /\ documents' = documents \cup
                {<<current_user_id, r.steps[k].doc_id, r.steps[k].file_name>> :
                    k \in {j \in 1..Len(r.steps) : r.steps[j].record = "saved"}}
    /\ next_doc' = next_doc + 1
    /\ UNCHANGED <<ct, app_vars, service_vars>>

\* get_ai_response (simple_app.py:164-212) for a client's question, the
\* query and the database answering: the collection the answer is drawn
\* from, and the two chat_messages rows saved.
ClientChat ==
    /\ Len(chat_messages) < 2 * MaxChats
    /\ \E c \in Clients :
       /\ clients[c] # NoValue
       /\ \E query_engine \in {get_query_engine(current_user_id, collections)} :
          /\ last' = [op |-> "get_ai_response", client |-> c,
                      logged_in_as |-> clients[c], user_id |-> current_user_id,
                      collection |-> query_engine]
          /\ chat_messages' =
                IF query_engine = NoValue
                THEN chat_messages
                ELSE chat_messages \o
                     <<[user_id |-> current_user_id, message_type |-> "user"],
                       [user_id |-> current_user_id,
                        message_type |-> "assistant"]>>
    /\ UNCHANGED <<ct, collections, persisted, next_doc, app_vars, documents,
                   procs, cognito, db_manager>>

NextSessions == Login \/ ClientUpload \/ ClientChat

SpecSessions == InitSessions /\ [][NextSessions]_vars

(***************************************************************************)
(* SpecRace: two ingestions running upload_chunks_to_qdrant at the same    *)
(* time (two requests served by two threads, or two processes), each with  *)
(* one chunk of its own document, against the one store.  Nothing in the   *)
(* code orders their client calls, so the calls of the two interleave in   *)
(* every way; each client call is one step.  procs[p].pc names the client  *)
(* call p issues next, or how its upload_chunks_to_qdrant ended.           *)
(***************************************************************************)
Procs == {"p1", "p2"}

ProcChunks(p) == SeedChunks(IF p = "p1" THEN DocId(1) ELSE DocId(2), 1)

\* client.create_collection(collection_name, vectors_config) as the store
\* serves it (:267-270): a name that exists already is refused, which the
\* client raises.
create_collection_call(cols, name) ==
    IF collection_exists(cols, name)
    THEN [status |-> "error", cols |-> cols]
    ELSE [status |-> "ok", cols |-> create_collection(cols, name)]

InitRace ==
    /\ ct = NoChunkCall
    /\ collections \in PreStores
    /\ last = [op |-> "concurrent ingestion", before |-> collections]
    /\ persisted = {}
    /\ next_doc = 1
    /\ NobodyLoggedIn
    /\ documents = {}
    /\ procs \in [Procs -> [user_id : Users, pc : {"get_collections"},
                            exists : {"not asked"}]]
    /\ cognito = NoCognito
    /\ db_manager = NoDatabase
    /\ chat_messages = <<>>

\* client.get_collections()   (:295-302)
TestConnection(p) ==
    /\ procs[p].pc = "get_collections"
    /\ procs' = [procs EXCEPT ![p].pc = "collection_exists"]
    /\ UNCHANGED <<ct, collections, last, persisted, next_doc, app_vars,
                   documents, cognito, db_manager, chat_messages>>

\* client.collection_exists(collection_name)   (:266)
ExistsCheck(p) ==
    /\ procs[p].pc = "collection_exists"
    /\ procs' =
          IF collection_exists(collections, collection_name(procs[p].user_id))
          THEN [procs EXCEPT ![p].exists = "yes", ![p].pc = "upsert"]
          ELSE [procs EXCEPT ![p].exists = "no", ![p].pc = "create_collection"]
    /\ UNCHANGED <<ct, collections, last, persisted, next_doc, app_vars,
                   documents, cognito, db_manager, chat_messages>>

\* client.create_collection(...) (:267-270); when it raises,
\* upload_chunks_to_qdrant re-raises (:309-311, :381-383).
CreateCollection(p) ==
    /\ procs[p].pc = "create_collection"
    /\ \E made \in {create_collection_call(collections,
                                           collection_name(procs[p].user_id))} :
          /\ collections' = made.cols
          /\ procs' = [procs EXCEPT ![p].pc = IF made.status = "error"
                                              THEN "raised" ELSE "upsert"]
    /\ UNCHANGED <<ct, last, persisted, next_doc, app_vars, documents,
                   cognito, db_manager, chat_messages>>

\* The point loop and client.upsert (:324-380), the embedding model and the
\* store answering; then return len(points).
Upsert(p) ==
    /\ procs[p].pc = "upsert"
    /\ \E sent \in {upload_points(ProcChunks(p),
                                   collection_name(procs[p].user_id),
                                   collections, "none",
                                   AllOk(ProcChunks(p)), <<>>)} :
          /\ collections' = sent.cols
          /\ persisted' = persisted \cup
                {<<collection_name(procs[p].user_id), sent.points[j].payload.doc_id,
                   sent.points[j].payload.chunk_id>> : j \in 1..Len(sent.points)}
    /\ procs' = [procs EXCEPT ![p].pc = "returned"]
    /\ UNCHANGED <<ct, last, next_doc, app_vars, documents, cognito,
                   db_manager, chat_messages>>

NextRace ==
    \E p \in Procs :
        \/ TestConnection(p)
        \/ ExistsCheck(p)
        \/ CreateCollection(p)
        \/ Upsert(p)

SpecRace == InitRace /\ [][NextRace]_vars

(***************************************************************************)
(* SpecAuth: the functions of aws_cognito.py called in any order.  cognito *)
(* holds what the module computed when it was imported: whether            *)
(* cognito_client is a client (boto3 importable and boto3.client returned) *)
(* or None, and whether each identifier read from the environment is a     *)
(* non-empty string.  A call of the Cognito client answers, raises         *)
(* ClientError, or raises another exception.                               *)
(***************************************************************************)
Configs ==
    [cognito_client : BOOLEAN, COGNITO_USER_POOL_ID : BOOLEAN,
     COGNITO_APP_CLIENT_ID : BOOLEAN, COGNITO_APP_CLIENT_SECRET : BOOLEAN]

Usernames == Users \cup {""}

Responses == {"ok", "ClientError", "other exception"}

\* The first `def local_auth_enabled` (:36-38).  The name is bound again at
\* :198, before any function of the module can be called, so no call
\* reaches this body.
local_auth_enabled_shadowed(config) ==
    \/ ~config.cognito_client
    \/ ~config.COGNITO_USER_POOL_ID
    \/ ~config.COGNITO_APP_CLIENT_ID

\* The `def local_auth_enabled` in force (:198-201): cognito_client is None
local_auth_enabled(config) == ~config.cognito_client

LocalResult(success, user_id) ==
    [success |-> success, user_id |-> user_id, raised |-> FALSE,
     called |-> NoValue, secret_hash |-> FALSE]

\* get_secret_hash (:40-51): None without COGNITO_APP_CLIENT_SECRET
get_secret_hash(config) == config.COGNITO_APP_CLIENT_SECRET

\* try: cognito_client.<api>(...) ... except ClientError; secret_hash tells
\* whether the parameters carry a SecretHash.
cognito_call(api, response, user_id, secret_hash) ==
    [success |-> response = "ok",
     user_id |-> IF response = "ok" THEN user_id ELSE NoValue,
     raised |-> response = "other exception",
     called |-> api, secret_hash |-> secret_hash]

\* sign_up (:53-89); a registered user's id is the UserSub Cognito returns
sign_up(config, username, response) ==
    IF local_auth_enabled(config)
    THEN LocalResult(TRUE, username)
    ELSE cognito_call("sign_up", response, "UserSub", get_secret_hash(config))

\* confirm_sign_up (:91-122)
confirm_sign_up(config, username, response) ==
    IF local_auth_enabled(config)
    THEN LocalResult(TRUE, NoValue)
    ELSE cognito_call("confirm_sign_up", response, NoValue,
                      get_secret_hash(config))

\* sign_in (:124-169)
sign_in(config, username, response) ==
    IF local_auth_enabled(config)
    THEN IF username # "" THEN LocalResult(TRUE, username)
         ELSE LocalResult(FALSE, NoValue)
    ELSE cognito_call("initiate_auth", response, username,
                      get_secret_hash(config))

\* verify_token (:171-196)
verify_token(config, response) ==
    IF local_auth_enabled(config)
    THEN LocalResult(TRUE, "local_user")
    ELSE cognito_call("get_user", response, "Username", FALSE)

InitAuth ==
    /\ ct = NoChunkCall
    /\ collections = EmptyStore
    /\ last = NoCall
    /\ persisted = {}
    /\ next_doc = 1
    /\ NobodyLoggedIn
    /\ documents = {}
    /\ procs = <<>>
    /\ cognito \in Configs
    /\ db_manager = NoDatabase
    /\ chat_messages = <<>>

AuthReturns(op, username, result) ==
    /\ last' = [op |-> op, username |-> username, result |-> result]
    /\ UNCHANGED <<ct, collections, persisted, next_doc, app_vars, documents,
                   service_vars>>

SignUp ==
    \E username \in Usernames, response \in Responses :
        AuthReturns("sign_up", username, sign_up(cognito, username, response))

ConfirmSignUp ==
    \E username \in Usernames, response \in Responses :
        AuthReturns("confirm_sign_up", username,
                    confirm_sign_up(cognito, username, response))

SignIn ==
    \E username \in Usernames, response \in Responses :
        AuthReturns("sign_in", username, sign_in(cognito, username, response))

VerifyToken ==
    \E response \in Responses :
        AuthReturns("verify_token", NoValue, verify_token(cognito, response))

NextAuth == SignUp \/ ConfirmSignUp \/ SignIn \/ VerifyToken

SpecAuth == InitAuth /\ [][NextAuth]_vars

(***************************************************************************)
(* SpecDb: the construction of database.DatabaseManager (executed once,    *)
(* at `db_manager = DatabaseManager()`, database.py:173).  The environment *)
(* is DB_TYPE, which of DB_HOST, DB_NAME, DB_USER and DB_PASSWORD are      *)
(* non-empty, and whether the PostgreSQL connection test, create_all on    *)
(* PostgreSQL and the SQLite set-up succeed.  engine and SessionLocal are  *)
(* named by the backend they are bound to.                                 *)
(***************************************************************************)
SQLITE == <<"s", "q", "l", "i", "t", "e">>

DbTypes == {<<>>, SQLITE, <<"S", "Q", "L", "i", "t", "e">>,
            <<"p", "o", "s", "t", "g", "r", "e", "s", "q", "l">>}

Outcomes == {"ok", "raise"}

DbEnvs ==
    [DB_TYPE : DbTypes, DB_HOST : BOOLEAN, DB_NAME : BOOLEAN,
     DB_USER : BOOLEAN, DB_PASSWORD : BOOLEAN, connect : Outcomes,
     create_all : Outcomes, sqlite : Outcomes]

\* _setup_postgresql (:92-139)
setup_postgresql(db, env) ==
    IF ~(env.DB_HOST /\ env.DB_NAME /\ env.DB_USER /\ env.DB_PASSWORD)
    THEN [status |-> "raised", db |-> db]
    ELSE IF env.connect = "raise"
    THEN [status |-> "raised", db |-> [db EXCEPT !.engine = "postgresql"]]
    ELSE [status |-> "ok",
          db |-> [db EXCEPT !.engine = "postgresql",
                            !.SessionLocal = "postgresql"]]

\* _setup_sqlite (:141-156); create_all is its last call that can fail
setup_sqlite(db, env) ==
    [status |-> IF env.sqlite = "raise" THEN "raised" ELSE "ok",
     db |-> [db EXCEPT !.engine = "sqlite", !.SessionLocal = "sqlite"]]

\* except Exception: self._setup_sqlite(); self.db_type = 'sqlite' (:82-90)
initialize_fallback(pg, env) ==
    With(setup_sqlite(pg.db, env), LAMBDA sq :
        [status |-> sq.status,
         db |-> IF sq.status = "ok" THEN [sq.db EXCEPT !.db_type = "sqlite"]
                ELSE sq.db,
         tried |-> <<"postgresql", "sqlite">>])

\* __init__ and _initialize_database (:58-90)
initialize_database(env) ==
    IF lower(env.DB_TYPE) = SQLITE
    THEN With(setup_sqlite(NoDatabase, env), LAMBDA sq :
            [status |-> sq.status, db |-> sq.db, tried |-> <<"sqlite">>])
    ELSE With(setup_postgresql(NoDatabase, env), LAMBDA pg :
            IF pg.status = "ok" /\ env.create_all = "ok"
            THEN [status |-> "ok",
                  db |-> [pg.db EXCEPT !.db_type = "postgresql"],
                  tried |-> <<"postgresql">>]
            ELSE initialize_fallback(pg, env))

InitDb ==
    /\ ct = NoChunkCall
    /\ collections = EmptyStore
    /\ last = NoCall
    /\ persisted = {}
    /\ next_doc = 1
    /\ NobodyLoggedIn
    /\ documents = {}
    /\ ServicesIdle

InitializeDatabase ==
    /\ last.op = "none"
    /\ \E env \in DbEnvs :
       \E r \in {initialize_database(env)} :
          /\ db_manager' = r.db
          /\ last' = [op |-> "DatabaseManager", env |-> env,
                      status |-> r.status, tried |-> r.tried]
    /\ UNCHANGED <<ct, collections, persisted, next_doc, app_vars, documents,
                   procs, cognito, chat_messages>>

NextDb == InitializeDatabase

SpecDb == InitDb /\ [][NextDb]_vars

(***************************************************************************)
(* Properties of chunk_text (SpecChunk).                                   *)
(***************************************************************************)
RECURSIVE Concat(_)
Concat(ss) == IF Len(ss) = 0 THEN <<>> ELSE Head(ss) \o Concat(Tail(ss))

\* Python's s[n:]
DropFirst(s, n) == SubSeq(s, n + 1, Len(s))

\* The first chunk whole, every later chunk without its first `overlap`
\* characters, concatenated in order.
Reassembled(chunks, overlap) ==
    IF Len(chunks) = 0
    THEN <<>>
    ELSE chunks[1] \o
         Concat([k \in 1..(Len(chunks) - 1) |-> DropFirst(chunks[k + 1], overlap)])

\* C1: for every text and every window > overlap >= 0, the first chunk of
\* chunk_text followed by every later chunk with its first `overlap`
\* characters dropped is exactly the original text.
C1_Reconstruct ==
    ct.done => Reassembled(ct.chunks, ct.overlap) = ct.text

\* C1's case: three or more chunks, a real overlap, a short last chunk.
C1_Witness ==
    /\ ct.done
    /\ Len(ct.chunks) >= 3
    /\ ct.overlap >= 1
    /\ Len(ct.chunks[Len(ct.chunks)]) < ct.chunk_size

\* ceil(a / b) for b > 0
CeilDiv(a, b) == -((-a) \div b)

\* Python's text[start:end] for 0 <= start <= end
Slice(text, start, end) == SubSeq(text, start + 1, Min(end, Len(text)))

C13_ShortTextOneChunk ==
    (ct.done /\ Len(ct.text) < ct.chunk_size) => ct.chunks = <<ct.text>>

\* C13 amended: every text of at least one character that is shorter than
\* the window gives exactly one chunk, equal to the whole text; the empty
\* text gives no chunk.
C13_NonEmptyShortTextOneChunk ==
    /\ (ct.done /\ 1 <= Len(ct.text) /\ Len(ct.text) < ct.chunk_size) =>
          ct.chunks = <<ct.text>>
    /\ (ct.done /\ Len(ct.text) = 0) => ct.chunks = <<>>

\* C13's case: a text one character short of the window, with an overlap.
C13_Witness ==
    /\ ct.done
    /\ Len(ct.text) = ct.chunk_size - 1
    /\ Len(ct.text) >= 2
    /\ ct.overlap >= 1
    /\ ct.chunks = <<ct.text>>

(***************************************************************************)
(* Properties of the Vector Store Gateway (SpecGateway).                   *)
(***************************************************************************)
Uploaded == last.op = "upload_chunks_to_qdrant"

Created == last.op = "create_user_collection"

PointsOf(cols, name) == IF name \in DOMAIN cols THEN cols[name].points ELSE {}

\* The chunks of the last upload that its loop skips.
Skipped(k) ==
    \/ is_blank(last.chunks[k].chunk_text)
    \/ last.emb[k] \in {"raise", "none"}

\* The stored point that chunk k of the last upload was turned into.
StoredFor(k) ==
    {p \in PointsOf(collections, collection_name(last.user_id)) :
        /\ p.payload.doc_id = last.chunks[k].doc_id
        /\ p.payload.chunk_id = last.chunks[k].chunk_id}

\* The client calls of the last upload that are embedding calls, in order.
EmbedCalls == SelectSeq(last.calls, LAMBDA c : c[1] = "embed")

\* C2: upload_chunks_to_qdrant takes the chunks in order, skips without
\* failing every chunk that is blank or whose embedding raises or returns
\* nothing, persists one point for each other chunk and returns the number of
\* points persisted, at most len(chunks); 5 chunks of which only the 3rd
\* fails to embed give 4, and no point for chunk 3.
C2_SkipAndCount ==
    (Uploaded /\ last.fault = "none") =>
        LET n == Len(last.chunks)
            kept == {k \in 1..n : ~Skipped(k)}
        IN  /\ last.status = "ok"
            /\ \A k \in 1..n : Skipped(k) => StoredFor(k) = {}
            /\ \A k \in kept : Cardinality(StoredFor(k)) = 1
            /\ \A k \in kept : \A p \in StoredFor(k) :
                  p.payload.text = last.chunks[k].chunk_text
            /\ last.ret = Cardinality(kept)
            /\ last.ret = Cardinality(UNION {StoredFor(k) : k \in 1..n})
            /\ last.ret <= n
            /\ \A i, j \in 1..Len(EmbedCalls) :
                  i < j => EmbedCalls[i][2] < EmbedCalls[j][2]
            /\ (n = 5 /\ {k \in 1..n : Skipped(k)} = {3}) =>
                  last.ret = 4 /\ StoredFor(3) = {}

\* C2's case: 5 chunks, the 3rd chunk's embedding call raises, and the
\* collection held points of an earlier document before the call.
C2_Witness ==
    /\ Uploaded
    /\ last.fault = "none"
    /\ Len(last.chunks) = 5
    /\ \A k \in 1..5 : ~is_blank(last.chunks[k].chunk_text)
    /\ \A k \in 1..5 : (last.emb[k] = "raise") <=> (k = 3)
    /\ \A k \in 1..5 : (last.emb[k] = "ok") <=> (k # 3)
    /\ PointsOf(last.before, collection_name(last.user_id)) # {}
    /\ last.ret = 4

\* C6: create_user_collection for a user whose collection exists (the store
\* answering the existence check) creates nothing, raises nothing, returns
\* the same name and leaves the store, so the collection's points, as they
\* were; since a call that returns leaves the collection existing, any
\* number of calls in sequence leave what the first one left.
C6_CreateIdempotent ==
    (Created /\ last.fault # "collection_exists") =>
        LET name == collection_name(last.user_id)
        IN  /\ collection_exists(last.before, name) =>
                /\ last.status = "ok"
                /\ last.ret = name
                /\ collections = last.before
                /\ last.calls = <<<<"collection_exists", name>>>>
            /\ last.status = "ok" =>
                /\ last.ret = name
                /\ collection_exists(collections, name)
                /\ \A other \in DOMAIN last.before :
                      collections[other] = last.before[other]

\* C6's case: a call for a user whose collection exists and holds points.
C6_Witness ==
    /\ Created
    /\ last.status = "ok"
    /\ PointsOf(last.before, collection_name(last.user_id)) # {}
    /\ Cardinality(PointsOf(collections, collection_name(last.user_id))) = 3

\* C9 as claimed: a failing upsert is recovered locally, the call does not
\* fail and the other chunks are persisted.
C9_UpsertFailureRecovered ==
    (Uploaded /\ last.fault = "upsert") =>
        /\ last.status = "ok"
        /\ \E k \in 1..Len(last.chunks) : StoredFor(k) # {}

\* C9 amended: a chunk whose embedding fails is skipped, the other chunks are
\* persisted and the call does not fail for it; the upsert is one call for
\* the whole batch, and when it fails the call raises and no chunk of the
\* batch is persisted.
C9_UpsertFailureFatal ==
    /\ (Uploaded /\ last.fault = "upsert") =>
          /\ last.status = "error"
          /\ last.error = "upsert"
          /\ \A k \in 1..Len(last.chunks) : StoredFor(k) = {}
          /\ PointsOf(collections, collection_name(last.user_id)) =
                PointsOf(last.before, collection_name(last.user_id))
    /\ (Uploaded /\ last.fault = "none") =>
          /\ last.status = "ok"
          /\ \A k \in 1..Len(last.chunks) :
                IF ~is_blank(last.chunks[k].chunk_text) /\ last.emb[k] = "ok"
                THEN StoredFor(k) # {}
                ELSE StoredFor(k) = {}

\* C9's case: the upsert of a batch of two or more points fails, after a
\* chunk of the same batch was skipped for its embedding.
C9_Witness ==
    /\ Uploaded
    /\ last.fault = "upsert"
    /\ Len(last.points) >= 2
    /\ \E k \in 1..Len(last.chunks) : last.emb[k] = "raise"
    /\ last.status = "error"

\* C11: when the store answers and every chunk handed to
\* upload_chunks_to_qdrant is skipped (blank text, or an embedding that raises
\* or returns nothing), the call returns 0 without raising, sends no upsert
\* and leaves the points of the user's collection as they were.
C11_AllSkippedReturnsZero ==
    (/\ Uploaded
     /\ last.fault = "none"
     /\ \A k \in 1..Len(last.chunks) : Skipped(k))
        => /\ last.status = "ok"
           /\ last.ret = 0
           /\ \A i \in 1..Len(last.calls) : last.calls[i][1] # "upsert"
           /\ PointsOf(collections, collection_name(last.user_id)) =
                 PointsOf(last.before, collection_name(last.user_id))

\* C11's case: a blank chunk, a chunk whose embedding raises and one whose
\* embedding returns nothing, for a user whose collection holds points.
C11_Witness ==
    /\ Uploaded
    /\ last.fault = "none"
    /\ Len(last.chunks) >= 3
    /\ \A k \in 1..Len(last.chunks) : Skipped(k)
    /\ \E k \in 1..Len(last.chunks) : is_blank(last.chunks[k].chunk_text)
    /\ \E k \in 1..Len(last.chunks) : last.fates[k] = "embed_raised"
    /\ \E k \in 1..Len(last.chunks) : last.fates[k] = "no_embedding"
    /\ PointsOf(last.before, collection_name(last.user_id)) # {}
    /\ last.ret = 0

\* C10: with the store unreachable when upload_chunks_to_qdrant starts, the
\* call raises after its connection test alone: no collection is created, no
\* embedding computed, no upsert issued, and the store is as it was.
C10_UnreachableAbortsFirst ==
    (Uploaded /\ last.fault = "get_collections") =>
        /\ last.status = "error"
        /\ last.calls = <<<<"get_collections">>>>
        /\ collections = last.before

\* C10's case: the store is unreachable, the user has no collection yet and
\* the batch holds a chunk that would have been embedded and stored.
C10_Witness ==
    /\ Uploaded
    /\ last.fault = "get_collections"
    /\ ~collection_exists(last.before, collection_name(last.user_id))
    /\ \E k \in 1..Len(last.chunks) : ~is_blank(last.chunks[k].chunk_text)
    /\ last.status = "error"

(***************************************************************************)
(* Properties of process_document (SpecIngest, Spec).                      *)
(***************************************************************************)
Ingested == last.op = "process_document"

\* The file names of FileNames by the variant their extension stands for,
\* written out by hand; the other names have an unknown extension or none.
TextNames ==
    {<<"f", ".", "t", "x", "t">>, <<"f", ".", "m", "d">>,
     <<"f", ".", "c", "s", "v">>, <<"f", ".", "j", "s", "o", "n">>,
     <<"f", ".", "T", "X", "T">>}

ImageNames ==
    {<<"f", ".", "p", "n", "g">>, <<"f", ".", "j", "p", "g">>,
     <<"f", ".", "j", "p", "e", "g">>, <<"f", ".", "t", "i", "f">>,
     <<"f", ".", "t", "i", "f", "f">>, <<"f", ".", "b", "m", "p">>,
     <<"f", ".", "g", "i", "f">>, <<"f", ".", "J", "P", "G">>,
     <<"f", ".", "p", "d", "f", ".", "p", "n", "g">>}

PdfNames == {<<"f", ".", "p", "d", "f">>, <<"f", ".", "P", "d", "f">>}

KnownNames == TextNames \cup ImageNames \cup PdfNames

VariantFor(filename) ==
    IF filename \in TextNames THEN "text"
    ELSE IF filename \in ImageNames THEN "image"
    ELSE "pdf"

Variants(attempts) == [k \in 1..Len(attempts) |-> attempts[k].variant]

\* The points of the last call's document in the user's collection.
DocPoints ==
    {p \in PointsOf(collections, collection_name(last.user_id)) :
        p.payload.doc_id = last.doc_id}

\* C3 as claimed: after any sequence of ingestions the user's collection
\* holds a point for every (doc_id, chunk_id) that an ingestion which
\* returned has persisted; no later ingestion overwrites or removes one.
C3_EveryPersistedPointKept ==
    \A t \in persisted :
        \E p \in PointsOf(collections, t[1]) :
            p.payload.doc_id = t[2] /\ p.payload.chunk_id = t[3]

\* C4: for a name with a known extension, in any letter case, whatever the
\* file holds, process_document invokes the one variant the extension stands
\* for and no other, also when that variant raises.
C4_KnownExtensionOneVariant ==
    (Ingested /\ last.filename \in KnownNames) =>
        /\ last.file.exists =>
              Variants(last.attempts) = <<VariantFor(last.filename)>>
        /\ ~last.file.exists => last.attempts = <<>>
        /\ (last.file.exists /\ last.attempts[1].status = "error") =>
              last.status = "error"

\* C4's case: an upper-case image extension on a file that is no image; the
\* image variant raises and nothing else is tried.
C4_Witness ==
    /\ Ingested
    /\ last.filename = <<"f", ".", "J", "P", "G">>
    /\ last.file.exists
    /\ ~last.file.image.opens
    /\ Len(last.file.text) > 0
    /\ Variants(last.attempts) = <<"image">>
    /\ last.status = "error"

\* C5: for an existing file whose extension is unknown the text variant is
\* tried first; the image variant is tried second, and exactly when the text
\* variant raised; the first variant that returns supplies the result; the
\* unsupported-format error is raised exactly when both raised.
C5_UnknownExtensionFallback ==
    (Ingested /\ last.filename \notin KnownNames /\ last.file.exists) =>
        LET tried == last.attempts
        IN  /\ Len(tried) \in {1, 2}
            /\ tried[1].variant = "text"
            /\ Len(tried) = 2 <=> tried[1].status = "error"
            /\ Len(tried) = 2 => tried[2].variant = "image"
            /\ tried[1].status = "ok" =>
                  last.status = "ok" /\ last.ret = tried[1].ret
            /\ (Len(tried) = 2 /\ tried[2].status = "ok") =>
                  last.status = "ok" /\ last.ret = tried[2].ret
            /\ last.status = "error" <=>
                  \A k \in 1..Len(tried) : tried[k].status = "error"
            /\ last.status = "error" => last.error = "Unsupported file format"

\* C5's case: the text variant raised, the image variant returned and its
\* chunks are the result.
C5_Witness ==
    /\ Ingested
    /\ last.filename \notin KnownNames
    /\ Variants(last.attempts) = <<"text", "image">>
    /\ last.attempts[1].status = "error"
    /\ last.status = "ok"
    /\ last.ret = last.attempts[2].ret
    /\ DocPoints # {}

\* C7 as claimed: whenever the gateway fails during an ingestion call (the
\* store unreachable, the collection not created, the upsert failing) the
\* call raises; a call that returns returns the complete tagged chunks.
C7_GatewayFailurePropagates ==
    Ingested =>
        /\ (\E k \in 1..Len(last.attempts) :
               last.attempts[k].upload.status = "error") =>
              last.status = "error"
        /\ last.status = "ok" =>
              \E k \in 1..Len(last.attempts) :
                 last.ret = tag_chunks(chunk_text(last.attempts[k].text,
                                                  CHUNK_SIZE, OVERLAP),
                                       last.filename, last.doc_id)

\* The environment of the variant that supplied the last call's result.
FinalEnv == last.envs[Len(last.attempts)]

\* C8 as claimed: a call that returns, with at least one chunk that is not
\* blank, has written at least one point of the document to the user's
\* collection.
C8_NonEmptyChunkWritten ==
    (/\ Ingested
     /\ last.status = "ok"
     /\ \E k \in 1..Len(last.ret) : ~is_blank(last.ret[k].chunk_text))
        => DocPoints # {}

\* C8 amended: a call that returns, with at least one chunk that is not
\* blank and for which the embedding model returns a vector, has written a
\* point of the document for every such chunk; a call that returns with no
\* such chunk has written none.
C8_EmbeddedChunkWritten ==
    (Ingested /\ last.status = "ok") =>
        LET embedded == {k \in 1..Len(last.ret) :
                            /\ ~is_blank(last.ret[k].chunk_text)
                            /\ FinalEnv.emb[k] = "ok"}
        IN  /\ embedded # {} => DocPoints # {}
            /\ \A k \in embedded :
                  \E p \in DocPoints : p.payload.chunk_id = last.ret[k].chunk_id
            /\ embedded = {} => DocPoints = {}

\* C8's case: two chunks, the first one's embedding fails, the second one
\* is stored.
C8_Witness ==
    /\ Ingested
    /\ last.status = "ok"
    /\ Len(last.ret) = 2
    /\ FinalEnv.emb[1] = "raise"
    /\ FinalEnv.emb[2] = "ok"
    /\ Cardinality(DocPoints) = 1

(***************************************************************************)
(* Properties of the extractors (SpecIngest).                              *)
(***************************************************************************)
\* The variant that ran last in the last process_document call.
FinalAttempt == last.attempts[Len(last.attempts)]

\* The last call ran the PDF variant on a file that a fitz.open opened.
PdfRead ==
    /\ Ingested
    /\ Len(last.attempts) = 1
    /\ last.attempts[1].variant = "pdf"
    /\ Len(last.file.text) > 0
    /\ last.file.pdf.primary \/ last.file.pdf.fallback

\* The texts of the pages whose extraction does not raise, concatenated in
\* page order.
ReadablePages(pages) == SelectSeq(pages, LAMBDA pg : ~pg.raises)

PagesConcat(pages) ==
    Concat([k \in 1..Len(ReadablePages(pages)) |-> ReadablePages(pages)[k].text])

SomePageRaises(pages) == \E k \in 1..Len(pages) : pages[k].raises

ChunksOf(text) ==
    tag_chunks(chunk_text(text, CHUNK_SIZE, OVERLAP), last.filename, last.doc_id)

\* C14 as claimed: whenever a page of the PDF raises, the call still returns
\* (its upload not failing) and the returned chunks are those of the
\* concatenation of the other pages' texts.
C14_PageFailureChunksOfRest ==
    (/\ PdfRead
     /\ SomePageRaises(last.file.pdf.pages)
     /\ last.attempts[1].upload.status # "error")
        => /\ last.status = "ok"
           /\ last.ret = ChunksOf(PagesConcat(last.file.pdf.pages))

\* C14 amended: a page whose extraction raises never aborts process_pdf; it
\* contributes no text, the other pages' texts are concatenated in page
\* order, and the returned chunks are those of that concatenation, unless the
\* concatenation is empty or whitespace only (every page raised, or the
\* readable pages hold no text): then they are the chunks of the fixed
\* no-extractable-text sentence.
C14_PageFailureNeverAborts ==
    (PdfRead /\ last.attempts[1].upload.status # "error")
        => LET rest == PagesConcat(last.file.pdf.pages)
           IN  /\ last.status = "ok"
               /\ ~is_blank(rest) =>
                     /\ last.attempts[1].text = rest
                     /\ last.ret = ChunksOf(rest)
               /\ is_blank(rest) => last.ret = ChunksOf(NoPdfText)

\* C14's case: a PDF of 3 pages whose page 2 raises; the chunks are those of
\* page 1's text followed by page 3's.
C14_Witness ==
    /\ PdfRead
    /\ Len(last.file.pdf.pages) = 3
    /\ ~last.file.pdf.pages[1].raises
    /\ last.file.pdf.pages[2].raises
    /\ ~last.file.pdf.pages[3].raises
    /\ last.status = "ok"
    /\ Len(last.ret) = 1
    /\ last.ret[1].chunk_text =
          last.file.pdf.pages[1].text \o last.file.pdf.pages[3].text

\* C15: for an existing, non-empty file handed to process_pdf, the open of
\* the temporary copy is tried exactly when the open of the path failed; if
\* it succeeds the call does and returns what it would with the path opened;
\* the open failure is raised exactly when both opens failed.
C15_FallbackOpen ==
    (/\ Ingested
     /\ Len(last.attempts) = 1
     /\ last.attempts[1].variant = "pdf"
     /\ Len(last.file.text) > 0)
        => LET a == last.attempts[1]
               pdf == last.file.pdf
               opened == process_pdf([last.file EXCEPT !.pdf.primary = TRUE],
                                     last.filename, last.doc_id, last.user_id,
                                     last.before, last.envs[1])
           IN  /\ pdf.primary => a.opens = <<"path">>
               /\ ~pdf.primary => a.opens = <<"path", "temp">>
               /\ (a.error = "Failed to open PDF") <=>
                     (~pdf.primary /\ ~pdf.fallback)
               /\ (~pdf.primary /\ pdf.fallback) =>
                     /\ a.status = opened.status
                     /\ a.ret = opened.ret
                     /\ a.cols = opened.cols
                     /\ a.upload = opened.upload

\* C15's case: the path does not open, the temporary copy does, and the
\* document's points are stored.
C15_Witness ==
    /\ PdfRead
    /\ ~last.file.pdf.primary
    /\ last.attempts[1].opens = <<"path", "temp">>
    /\ last.status = "ok"
    /\ DocPoints # {}

\* C16: when the image opens and its OCR text is empty or whitespace only,
\* or the PDF opens and the text of its pages is, the variant does not fail
\* for it: its text is the fixed sentence of the variant, and (its upload
\* not failing) the call returns one chunk, that sentence.
C16_BlankTextSentinel ==
    Ingested =>
        /\ (/\ Len(last.attempts) >= 1
            /\ FinalAttempt.variant = "image"
            /\ last.file.image.opens
            /\ is_blank(last.file.image.ocr)) =>
              /\ FinalAttempt.text = NoImageText
              /\ FinalAttempt.upload.status # "not called"
              /\ FinalAttempt.upload.status # "error" =>
                    /\ last.status = "ok"
                    /\ Len(last.ret) = 1
                    /\ last.ret[1].chunk_text = NoImageText
                    /\ last.ret[1].chunk_id = 0
        /\ (PdfRead /\ is_blank(PagesConcat(last.file.pdf.pages))) =>
              /\ FinalAttempt.text = NoPdfText
              /\ FinalAttempt.upload.status # "not called"
              /\ FinalAttempt.upload.status # "error" =>
                    /\ last.status = "ok"
                    /\ Len(last.ret) = 1
                    /\ last.ret[1].chunk_text = NoPdfText
                    /\ last.ret[1].chunk_id = 0

\* C16's case: an image whose OCR text is a space; the sentence is returned
\* and stored as the document's one point.
C16_Witness ==
    /\ Ingested
    /\ last.filename \in ImageNames
    /\ last.file.image.opens
    /\ last.file.image.ocr = <<" ">>
    /\ last.status = "ok"
    /\ \E p \in DocPoints : p.payload.text = NoImageText

\* C17: process_document for a path that does not exist raises for the
\* missing file before any variant is invoked; no collection is created and
\* no point written: the store is as it was.
C17_MissingPathNotDispatched ==
    (Ingested /\ ~last.file.exists) =>
        /\ last.status = "error"
        /\ last.error = "FileNotFoundError"
        /\ last.attempts = <<>>
        /\ collections = last.before
        /\ persisted = {}

\* C17's case: a missing path under a text file name, for a user who has no
\* collection yet.
C17_Witness ==
    /\ Ingested
    /\ ~last.file.exists
    /\ last.filename \in TextNames
    /\ ~collection_exists(collections, collection_name(last.user_id))
    /\ last.status = "error"

TextFileRead == last.op = "process_text_file"

\* C18: process_text_file raises for a missing path and for a zero-length
\* file, naming the cause, before it chunks and before it calls the store;
\* for an existing file of one byte or more it never raises for its bytes:
\* a byte that is no UTF-8 is read as the replacement character, and the
\* call returns the chunks of the text so read unless its upload fails.
C18_TextVariantErrors ==
    TextFileRead =>
        /\ ~last.file.exists =>
              /\ last.status = "error"
              /\ last.error = "FileNotFoundError"
        /\ (last.file.exists /\ Len(last.file.text) = 0) =>
              /\ last.status = "error"
              /\ last.error = "ValueError"
        /\ (~last.file.exists \/ Len(last.file.text) = 0) =>
              /\ last.upload = NoUpload
              /\ last.text = <<>>
              /\ collections = last.before
        /\ (last.file.exists /\ Len(last.file.text) > 0) =>
              /\ last.upload.status # "not called"
              /\ Len(last.text) = Len(last.file.text)
              /\ \A k \in 1..Len(last.text) :
                    last.text[k] = IF last.file.text[k] = BadByte
                                   THEN Replacement ELSE last.file.text[k]
              /\ last.status = "error" <=> last.upload.status = "error"
              /\ last.status = "ok" =>
                    last.ret = tag_chunks(chunk_text(last.text, CHUNK_SIZE, OVERLAP),
                                          <<"f", ".", "t", "x", "t">>, last.doc_id)

\* C18's case: a file holding a byte that is no UTF-8; the call returns one
\* chunk, the replacement character.
C18_Witness ==
    /\ TextFileRead
    /\ last.file.text = <<BadByte>>
    /\ last.status = "ok"
    /\ Len(last.ret) = 1
    /\ last.ret[1].chunk_text = <<Replacement>>

Reingested == last.op = "process_document again"

\* C19: process_document invoked a second time for the same file, doc_id and
\* user, the embedding model doing for each chunk what it did the first
\* time and the store answering, returns the same chunks and leaves the
\* store, so the user's collection with its point count, ids and payloads,
\* exactly as the first invocation left it.
C19_ReingestIdempotent ==
    Reingested =>
        /\ last.status = "ok"
        /\ last.ret = last.first.ret
        /\ collections = last.before
        /\ PointsOf(collections, collection_name(last.user_id)) =
              PointsOf(last.before, collection_name(last.user_id))

\* C19's case: a document of two chunks ingested twice into a collection
\* that held points of another document before.
C19_Witness ==
    /\ Reingested
    /\ PointsOf(last.first.before, collection_name(last.user_id)) # {}
    /\ Len(last.ret) = 2
    /\ Cardinality(DocPoints) = 2
    /\ Cardinality(PointsOf(collections, collection_name(last.user_id))) = 3

(***************************************************************************)
(* Properties of process_uploaded_file (SpecUpload).                       *)
(***************************************************************************)
FilesUploaded ==
    /\ last.op = "process_uploaded_file"
    /\ Len(last.files) > 0
    /\ last.user_id # NoValue

\* The result entries of the same call made with the first k files only.
ResultsOfFirst(k) ==
    process_uploaded_file(SubSeq(last.files, 1, k), last.user_id, last.before,
                          SubSeq(last.envs, 1, k)).results

\* C20: process_uploaded_file, given files by a logged-in user, takes the
\* files in the given order, runs process_document for each under a doc_id
\* of its own, and appends exactly one result entry per file, in order; the
\* entry is the file's error entry exactly when process_document, the
\* second upload or save_document_record raised for it; whatever happens to
\* a file, every later file is processed, and the entries of the files
\* before it are what they are without it.
C20_OneEntryPerFile ==
    FilesUploaded =>
        LET n == Len(last.files)
        IN  /\ Len(last.results) = n
            /\ Len(last.steps) = n
            /\ last.documents = n
            /\ \A k \in 1..n :
                  /\ last.results[k].file_name = last.files[k].name
                  /\ last.steps[k].doc_id = DocId(k)
                  /\ last.steps[k].doc.status \in {"ok", "error"}
                  /\ last.files[k].file.exists =>
                        Len(last.steps[k].doc.variants) >= 1
                  /\ last.results[k].mark = "error" <=>
                        \/ last.steps[k].doc.status = "error"
                        \/ last.steps[k].again = "error"
                        \/ last.steps[k].record = "raised"
                  /\ last.results[k].mark = "ok" <=>
                        last.steps[k].record = "saved"
                  /\ SubSeq(last.results, 1, k) = ResultsOfFirst(k)

\* C20's case: three files of which the second fails in process_document;
\* the first and the third are processed and reported as successes.
C20_Witness ==
    /\ FilesUploaded
    /\ Len(last.files) = 3
    /\ last.results[1].mark = "ok"
    /\ last.results[2].mark = "error"
    /\ last.steps[2].doc.status = "error"
    /\ last.results[3].mark = "ok"
    /\ last.steps[3].record = "saved"
    /\ last.total_chunks = 2

(***************************************************************************)
(* The persisted layout (SpecIngest, SpecGateway).                         *)
(***************************************************************************)
\* The collection of a user, spelled out: user_{user_id}_docs.
OwnCollection(user_id) == "user_" \o user_id \o "_docs"

PayloadFields == {"doc_id", "filename", "chunk_id", "text", "original_id"}

\* C21: a process_document call for user u leaves every collection that
\* existed existing, leaves every collection other than user_{u}_docs, so
\* every other user's, exactly as it was, creates no collection but
\* user_{u}_docs, and every point it adds to that collection has a payload
\* of exactly doc_id, filename, chunk_id, text and original_id.
C21_OnlyOwnCollectionWritten ==
    Ingested =>
        LET own == OwnCollection(last.user_id)
        IN  /\ DOMAIN last.before \subseteq DOMAIN collections
            /\ DOMAIN collections \subseteq DOMAIN last.before \cup {own}
            /\ \A name \in DOMAIN last.before \ {own} :
                  collections[name] = last.before[name]
            /\ own \in DOMAIN last.before =>
                  /\ collections[own].size = last.before[own].size
                  /\ collections[own].distance = last.before[own].distance
            /\ \A p \in PointsOf(collections, own) \ PointsOf(last.before, own) :
                  /\ DOMAIN p.payload = PayloadFields
                  /\ p.payload.doc_id = last.doc_id
                  /\ p.payload.filename = last.filename

\* C21's case: an ingestion for a user without a collection while another
\* user's collection holds points; the collection is created and written.
C21_Witness ==
    /\ Ingested
    /\ last.status = "ok"
    /\ OwnCollection(last.user_id) \notin DOMAIN last.before
    /\ \E name \in DOMAIN last.before : last.before[name].points # {}
    /\ Cardinality(PointsOf(collections, OwnCollection(last.user_id))) = 2

\* C22: process_document for an existing text file holding "hello world",
\* the store answering and the embedding model returning a vector, returns
\* exactly one chunk, with chunk_id 0 and chunk_text "hello world", and
\* exactly one point is persisted: in user_{user_id}_docs, with that text.
C22_HelloWorld ==
    (/\ Ingested
     /\ last.filename \in TextNames
     /\ last.file.exists
     /\ last.file.text = HelloWorld
     /\ last.envs[1].fault = "none"
     /\ last.envs[1].emb[1] = "ok")
        => /\ last.status = "ok"
           /\ last.ret = <<[doc_id |-> last.doc_id, filename |-> last.filename,
                            chunk_id |-> 0, chunk_text |-> HelloWorld]>>
           /\ last.attempts[1].upload.ret = 1
           /\ SelectSeq(last.attempts[1].upload.calls,
                        LAMBDA c : c[1] = "upsert") =
                 <<<<"upsert", OwnCollection(last.user_id), {0}>>>>
           /\ Cardinality({p \in PointsOf(collections, OwnCollection(last.user_id)) :
                              p.payload.doc_id = last.doc_id}) = 1
           /\ \A p \in PointsOf(collections, OwnCollection(last.user_id)) :
                 p.payload.doc_id = last.doc_id =>
                    /\ p.payload.text = HelloWorld
                    /\ p.payload.chunk_id = 0
           /\ \A name \in DOMAIN collections \ {OwnCollection(last.user_id)} :
                 \A p \in collections[name].points :
                    p.payload.doc_id # last.doc_id

\* C22's case: "hello world" ingested as f.txt by a user who has no
\* collection yet.
C22_Witness ==
    /\ Ingested
    /\ last.filename = <<"f", ".", "t", "x", "t">>
    /\ last.file.text = HelloWorld
    /\ last.before = EmptyStore
    /\ last.status = "ok"
    /\ Cardinality(DocPoints) = 1

\* The positions, in order, of the chunks of the last upload that are kept.
KeptPositions ==
    SelectSeq([k \in 1..Len(last.chunks) |-> k], LAMBDA k : ~Skipped(k))

\* C23: in one upload_chunks_to_qdrant call that reaches its loop, one
\* point is built per chunk that is not skipped, in chunk order; its id is
\* the 0-based position of its chunk in the list handed in, so the ids
\* increase strictly and a skipped chunk leaves a gap; its original_id is
\* doc_id, "_" and chunk_id of its chunk; and as the pipeline numbers its
\* chunks by position, the id is the chunk's chunk_id.
C23_PointIdsArePositions ==
    (Uploaded /\ last.error \notin {"get_collections", "create_user_collection"})
        => /\ Len(last.points) = Len(KeptPositions)
           /\ \A j \in 1..Len(last.points) :
                 LET chunk == last.chunks[KeptPositions[j]]
                 IN  /\ last.points[j].id = KeptPositions[j] - 1
                     /\ last.points[j].payload.original_id =
                           chunk.doc_id \o "_" \o ToString(chunk.chunk_id)
                     /\ last.points[j].payload.text = chunk.chunk_text
                     /\ last.points[j].id = chunk.chunk_id
           /\ \A i, j \in 1..Len(last.points) :
                 i < j => last.points[i].id < last.points[j].id

\* C23's case: the second of four chunks is skipped; the points have the
\* ids 0, 2 and 3.
C23_Witness ==
    /\ Uploaded
    /\ last.status = "ok"
    /\ Len(last.chunks) = 4
    /\ KeptPositions = <<1, 3, 4>>
    /\ [j \in 1..Len(last.points) |-> last.points[j].id] = <<0, 2, 3>>

\* C26 as claimed: whenever process_pdf opened a temporary copy of the PDF,
\* the temporary file is gone when process_pdf returns or raises.
C26_TempFileRemoved ==
    Ingested =>
        \A k \in 1..Len(last.attempts) :
            (/\ last.attempts[k].variant = "pdf"
             /\ last.attempts[k].opens = <<"path", "temp">>)
                => ~last.attempts[k].temp_left

(***************************************************************************)
(* Sessions (SpecSessions).                                                *)
(***************************************************************************)
TwoUsersLoggedIn ==
    /\ \A c \in Clients : clients[c] # NoValue
    /\ clients["c1"] # clients["c2"]

\* C24 as claimed: with the two clients logged in as different users, a
\* document a client uploads is stored in the collection of the user this
\* client logged in as, and a client's question is answered from that
\* user's collection.
C24_ClientsKeepTheirUser ==
    TwoUsersLoggedIn =>
        /\ last.op = "process_uploaded_file" =>
              /\ last.user_id = last.logged_in_as
              /\ \A name \in DOMAIN collections \ {OwnCollection(last.logged_in_as)} :
                    PointsOf(collections, name) = PointsOf(last.before, name)
        /\ (last.op = "get_ai_response" /\ last.collection # NoValue) =>
              last.collection = OwnCollection(last.logged_in_as)

(***************************************************************************)
(* Document records and the vector store (SpecUpload).                     *)
(***************************************************************************)
RecordSaved(step) ==
    <<last.user_id, step.doc_id, step.file_name>> \in documents

\* C28 as claimed: after process_uploaded_file, for every file of the batch
\* the document record was saved exactly when points of its doc_id were
\* persisted in the user's collection, and a file counted in total_chunks
\* has both.
C28_RecordsAgreeWithStore ==
    last.op = "process_uploaded_file" =>
        \A k \in 1..Len(last.steps) :
            /\ RecordSaved(last.steps[k]) <=> last.steps[k].stored # {}
            /\ last.steps[k].chunks > 0 =>
                  /\ RecordSaved(last.steps[k])
                  /\ last.steps[k].stored # {}

(***************************************************************************)
(* Termination of chunk_text (SpecChunkLoop).                              *)
(***************************************************************************)
\* C27: for every text and every 0 <= overlap < window the loop of
\* chunk_text returns; every iteration that does not leave the loop moves
\* start strictly forward, the loop is left only once the emitted slice
\* reached the end of the text (or the text is empty), and what is returned
\* is the one chunk sequence the arguments determine.
C27_Terminates ==
    /\ <>(ct.done)
    /\ [][~ct'.done => ct'.start > ct.start]_vars
    /\ [][ct'.done =>
            \/ Len(ct.text) = 0
            \/ ct.start + Len(ct'.chunks[Len(ct'.chunks)]) = Len(ct.text)]_vars
    /\ [](ct.done =>
            ct.chunks = chunk_text(ct.text, ct.chunk_size, ct.overlap))

C27_Witness ==
    /\ ct.done
    /\ ct.overlap > 0
    /\ ct.start > 0
    /\ Len(ct.chunks) >= 3

(***************************************************************************)
(* Concurrent ingestions (SpecRace).                                       *)
(***************************************************************************)
Ended(p) == procs[p].pc \in {"returned", "raised"}

SameUserNoCollection ==
    /\ procs["p1"].user_id = procs["p2"].user_id
    /\ ~collection_exists(last.before, collection_name(procs["p1"].user_id))

\* C25 as claimed: when two ingestions for one user whose collection does
\* not exist yet run concurrently, both get past create_user_collection
\* without error and the user's collection exists afterwards.
C25_ConcurrentCreateSucceeds ==
    (SameUserNoCollection /\ \A p \in Procs : Ended(p)) =>
        /\ \A p \in Procs : procs[p].pc = "returned"
        /\ collection_exists(collections, collection_name(procs["p1"].user_id))

(***************************************************************************)
(* Local authentication (SpecAuth).                                        *)
(***************************************************************************)
CognitoConfigured ==
    /\ cognito.cognito_client
    /\ cognito.COGNITO_USER_POOL_ID
    /\ cognito.COGNITO_APP_CLIENT_ID

\* C29 as claimed: sign_up, confirm_sign_up, sign_in and verify_token call
\* the Cognito client only when the client and both identifiers are
\* configured; in every other configuration they answer locally.
C29_CognitoOnlyWhenConfigured ==
    last.op \in {"sign_up", "confirm_sign_up", "sign_in", "verify_token"} =>
        (last.result.called # NoValue => CognitoConfigured)

(***************************************************************************)
(* DatabaseManager initialisation (SpecDb).                                *)
(***************************************************************************)
Initialized == last.op = "DatabaseManager"

PostgresFailed ==
    \/ ~(last.env.DB_HOST /\ last.env.DB_NAME /\ last.env.DB_USER
           /\ last.env.DB_PASSWORD)
    \/ last.env.connect = "raise"
    \/ last.env.create_all = "raise"

BackendInUse == last.tried[Len(last.tried)]

\* The order in which the backends are tried, and when the construction
\* raises: SQLite alone for DB_TYPE sqlite; otherwise PostgreSQL, then
\* SQLite exactly when PostgreSQL failed, raising only when both failed.
DbFallbackOrder ==
    Initialized =>
        IF lower(last.env.DB_TYPE) = SQLITE
        THEN last.tried = <<"sqlite">>
        ELSE /\ last.tried = IF PostgresFailed THEN <<"postgresql", "sqlite">>
                             ELSE <<"postgresql">>
             /\ last.status = "raised" <=>
                   (PostgresFailed /\ last.env.sqlite = "raise")

\* C30 as claimed: the backends are tried in the order above, and after
\* every successful initialization engine and SessionLocal are bound to
\* the backend in use and db_type is 'postgresql' or 'sqlite', its name.
C30_DbInitialized ==
    /\ DbFallbackOrder
    /\ (Initialized /\ last.status = "ok") =>
          /\ db_manager.engine = BackendInUse
          /\ db_manager.SessionLocal = BackendInUse
          /\ db_manager.db_type = BackendInUse

====
